---- MODULE Spec2Model ----
(***************************************************************************)
(* Road accident risk scorer: SmartAccidentPredictor (app/fallback.py) and *)
(* its wrapper AccidentPredictor (app/predictor.py).                       *)
(*                                                                         *)
(* Arithmetic is exact fixed point instead of binary floating point:       *)
(*   total_risk            in hundredths            (0.45 -> 45)           *)
(*   normalized_risk       in 1/8000                (total_risk / 8.0)     *)
(*   random draws          in hundredths            (0.95 -> 95)           *)
(*   final_risk            in 1/800000                                     *)
(*   prob_low/medium/high  in 1/80000000                                   *)
(*   reported confidence and probabilities in thousandths (round(x, 3))    *)
(*   reported risk_score   in tenths of a percent  (round(x * 100, 1))     *)
(* round() is taken on the exact value, halves to even; a binary float     *)
(* lying on a half can land one unit in the last place to either side.     *)
(* Result strings carry the source's text without its emoji prefix.        *)
(***************************************************************************)
EXTENDS Integers, Sequences, FiniteSets, TLC

VARIABLES
    rng,        \* state of the process-wide `random` module generator
    mt,         \* the generator's (opaque, fixed) output table
    request,    \* the (location, conditions) pair of the call in `result`
    result,     \* what the last finished predict_accident_risk call returned
    locals,     \* that call's local variables at its return
    formatted,  \* what predict_comprehensive_risk made of it, when it was called
    earlier,    \* an earlier call (request and result) kept for comparison
    threads,    \* per worker thread: position inside predict_accident_risk
    predictor,  \* api.py's module-global predictor (None until init_api)
    response    \* the HTTP response of the last request handled

vars == <<rng, mt, request, result, locals, formatted, earlier, threads,
          predictor, response>>

(***************************************************************************)
(* dict.get(key, default) on a table                                       *)
(***************************************************************************)
\* the default ignored: a key outside the table counts nothing
_get_without_default(table, key, default) ==
    IF key \in DOMAIN table THEN table[key] ELSE 0

_get(table, key, default) == IF key \in DOMAIN table THEN table[key] ELSE default

(***************************************************************************)
(* self.risk_weights, in hundredths                                        *)
(***************************************************************************)
W_vehicle_type ==
    ("Car" :> 20) @@ ("Bike" :> 70) @@ ("Truck" :> 50) @@ ("Bus" :> 40)
    @@ ("Auto-rickshaw" :> 60)

W_driver_age ==
    ("under_25" :> 60) @@ ("25_40" :> 20) @@ ("40_60" :> 10) @@ ("over_60" :> 40)

W_experience ==
    ("under_2" :> 70) @@ ("2_5" :> 40) @@ ("5_10" :> 20) @@ ("over_10" :> 10)

W_license_valid == ("yes" :> 0) @@ ("no" :> 80)

W_seatbelt == ("yes" :> 0) @@ ("no" :> 60)

W_weather ==
    ("Clear" :> 10) @@ ("Rainy" :> 60) @@ ("Foggy" :> 80) @@ ("Snowy" :> 90)
    @@ ("Stormy" :> 100)

W_road_surface == ("Dry" :> 10) @@ ("Wet" :> 50) @@ ("Icy" :> 90) @@ ("Muddy" :> 70)

W_visibility == ("high" :> 10) @@ ("medium" :> 40) @@ ("low" :> 80)

W_light_condition ==
    ("Daylight" :> 10) @@ ("Night_with_lights" :> 40)
    @@ ("Night_without_lights" :> 70)

W_road_type == ("Highway" :> 60) @@ ("City_Road" :> 30) @@ ("Rural_Road" :> 50)

W_road_design ==
    ("Straight" :> 20) @@ ("Curved" :> 50) @@ ("Junction" :> 80)
    @@ ("Roundabout" :> 40)

W_traffic_volume == ("Low" :> 20) @@ ("Medium" :> 40) @@ ("High" :> 70)

W_time_of_day ==
    ("Morning" :> 30) @@ ("Afternoon" :> 20) @@ ("Evening" :> 50) @@ ("Night" :> 60)

W_day_of_week == ("weekday" :> 30) @@ ("weekend" :> 50)

W_area_type == ("Urban" :> 40) @@ ("Suburban" :> 30) @@ ("Rural" :> 50)

W_overtaking == ("yes" :> 70) @@ ("no" :> 0)

W_alcohol == ("yes" :> 100) @@ ("no" :> 0)

W_phone_usage == ("yes" :> 80) @@ ("no" :> 0)

\* risk_weights['speed_factor'] = 0.01 per km/h, i.e. 1 hundredth
W_speed_factor == 1

\* risk_weights['accident_history'] = 0.1 per accident, i.e. 10 hundredths
W_accident_history == 10

\* .get(vehicle_type, 0.3) and .get(weather, 0.3)
UnknownWeight == 30

(***************************************************************************)
(* self.location_risk_base, in table (insertion) order, in hundredths      *)
(***************************************************************************)
location_risk_base ==
    << <<"mumbai", 60>>, <<"delhi", 70>>, <<"bangalore", 50>>, <<"chennai", 50>>,
       <<"kolkata", 60>>, <<"hyderabad", 50>>, <<"pune", 50>>, <<"ahmedabad", 60>>,
       <<"default_urban", 50>>, <<"default_rural", 40>> >>

\* self.location_risk_base[key]
location_risk_default(key) ==
    LET i == CHOOSE j \in 1..Len(location_risk_base) : location_risk_base[j][1] = key
    IN  location_risk_base[i][2]

urban_keywords == <<"city", "metro", "downtown", "central", "commercial">>

rural_keywords == <<"village", "countryside", "rural", "outskirts">>

DefaultLocationRisk == 45

(***************************************************************************)
(* str.lower() and the `in` substring test                                 *)
(***************************************************************************)
UpperAlphabet == "ABCDEFGHIJKLMNOPQRSTUVWXYZ"

LowerAlphabet == "abcdefghijklmnopqrstuvwxyz"

LowerChar(c) ==
    IF \E i \in 1..26 : SubSeq(UpperAlphabet, i, i) = c
    THEN LET i == CHOOSE j \in 1..26 : SubSeq(UpperAlphabet, j, j) = c
         IN  SubSeq(LowerAlphabet, i, i)
    ELSE c

RECURSIVE lower(_)
lower(s) ==
    IF Len(s) = 0 THEN ""
    ELSE LowerChar(SubSeq(s, 1, 1)) \o lower(SubSeq(s, 2, Len(s)))

Contains(s, key) ==
    \E i \in 1..(Len(s) - Len(key) + 1) : SubSeq(s, i, i + Len(key) - 1) = key

(***************************************************************************)
(* _get_location_risk                                                      *)
(***************************************************************************)
\* the rural keywords looked for before the urban ones
_get_location_risk_rural_first(location) ==
    LET location_lower == lower(location)
        hits == {i \in 1..Len(location_risk_base) :
                    Contains(location_lower, location_risk_base[i][1])}
    IN  IF hits # {}
        THEN LET first == CHOOSE i \in hits : \A j \in hits : i <= j
             IN  location_risk_base[first][2]
        ELSE IF \E k \in 1..Len(rural_keywords) :
                    Contains(location_lower, rural_keywords[k])
        THEN location_risk_default("default_rural")
        ELSE IF \E k \in 1..Len(urban_keywords) :
                    Contains(location_lower, urban_keywords[k])
        THEN location_risk_default("default_urban")
        ELSE DefaultLocationRisk

_get_location_risk(location) ==
    LET location_lower == lower(location)
        hits == {i \in 1..Len(location_risk_base) :
                    Contains(location_lower, location_risk_base[i][1])}
    IN  IF hits # {}
        THEN LET first == CHOOSE i \in hits : \A j \in hits : i <= j
             IN  location_risk_base[first][2]
        ELSE IF \E k \in 1..Len(urban_keywords) :
                    Contains(location_lower, urban_keywords[k])
        THEN location_risk_default("default_urban")
        ELSE IF \E k \in 1..Len(rural_keywords) :
                    Contains(location_lower, rural_keywords[k])
        THEN location_risk_default("default_rural")
        ELSE DefaultLocationRisk

(***************************************************************************)
(* _calculate_age_risk, _calculate_experience_risk, _calculate_speed_risk  *)
(***************************************************************************)
\* the shared boundary values put in the upper bucket
_calculate_age_risk_upper_bucket(age) ==
    IF age < 25 THEN "under_25"
    ELSE IF age < 40 THEN "25_40"
    ELSE IF age < 60 THEN "40_60"
    ELSE "over_60"

_calculate_age_risk(age) ==
    IF age < 25 THEN "under_25"
    ELSE IF age <= 40 THEN "25_40"
    ELSE IF age <= 60 THEN "40_60"
    ELSE "over_60"

_calculate_experience_risk(experience) ==
    IF experience < 2 THEN "under_2"
    ELSE IF experience <= 5 THEN "2_5"
    ELSE IF experience <= 10 THEN "5_10"
    ELSE "over_10"

Min(a, b) == IF a <= b THEN a ELSE b

Max(a, b) == IF a >= b THEN a ELSE b

\* the cap of line 134 left out
_calculate_speed_risk_uncapped(current_speed, speed_limit) ==
    IF current_speed <= speed_limit THEN 0
    ELSE (current_speed - speed_limit) * W_speed_factor

_calculate_speed_risk(current_speed, speed_limit) ==
    IF current_speed <= speed_limit THEN 0
    ELSE Min((current_speed - speed_limit) * W_speed_factor, 100)


(***************************************************************************)
(* The `random` module generator.  random.seed(s) resets the one global    *)
(* state; every uniform() consumes the next output and advances it.  The   *)
(* Mersenne Twister output is opaque: mt is an arbitrary fixed table, and  *)
(* the k-th output after seeding with s is a fixed function of (s, k).     *)
(* Outputs are grid positions in tenths of the requested interval.         *)
(***************************************************************************)
RandomGrid == <<0, 5, 10>>

DrawsPerCall == 4

MTTables == [1..DrawsPerCall -> 1..Len(RandomGrid)]

MTOutput(seed, k) ==
    LET slot  == ((k - 1) % DrawsPerCall) + 1
        round == (k - 1) \div DrawsPerCall
    IN  RandomGrid[((mt[slot] + seed + round) % Len(RandomGrid)) + 1]

\* random.seed left out: the generator stays where the last call left it
random_seed_skipped(seed) == rng

random_seed(seed) == [seed |-> seed, n |-> 0]

random_advance(g) == [g EXCEPT !.n = @ + 1]

\* random.uniform(a, b) = a + (b - a) * random(), a and b in hundredths
random_uniform(g, a, b) == a + ((b - a) * MTOutput(g.seed, g.n + 1)) \div 10

(***************************************************************************)
(* _generate_seed: the seed string, then a digest of it.  The md5 digest   *)
(* is replaced by a polynomial digest of the same string, truncated to     *)
(* SeedSpace values (the source keeps 32 bits of the md5).                 *)
(***************************************************************************)
CharSet ==
    "abcdefghijklmnopqrstuvwxyzABCDEFGHIJKLMNOPQRSTUVWXYZ0123456789 ,_-"

CharCode(c) ==
    IF \E i \in 1..Len(CharSet) : SubSeq(CharSet, i, i) = c
    THEN CHOOSE i \in 1..Len(CharSet) : SubSeq(CharSet, i, i) = c
    ELSE 0

SeedSpace == 65521

RECURSIVE Digest(_, _)
Digest(s, acc) ==
    IF Len(s) = 0 THEN acc
    ELSE Digest(SubSeq(s, 2, Len(s)),
                (acc * 31 + CharCode(SubSeq(s, 1, 1))) % SeedSpace)

\* predictor.py, _coordinates_to_location: the table of city centroids, in
\* 1/10000 of a degree, in table order
locations ==
    << <<190760, 728777, "Mumbai, Maharashtra">>,
       <<287041, 771025, "New Delhi">>,
       <<129716, 775946, "Bangalore, Karnataka">>,
       <<130827, 802707, "Chennai, Tamil Nadu">>,
       <<225726, 883639, "Kolkata, West Bengal">>,
       <<173850, 784867, "Hyderabad, Telangana">>,
       <<185204, 738567, "Pune, Maharashtra">>,
       <<230225, 725714, "Ahmedabad, Gujarat">>,
       <<269124, 757873, "Jaipur, Rajasthan">>,
       <<211458, 790882, "Nagpur, Maharashtra">>,
       <<152993, 741240, "Goa">>,
       <<110168, 769558, "Coimbatore, Tamil Nadu">> >>

CityNames == {locations[i][3] : i \in 1..Len(locations)}

\* the locations scored by SpecLocation
LocationSamples ==
    {"Mumbai, Maharashtra", "MUMBAI", "mumbai", "Navi Mumbai", "New Delhi",
     "DELHI", "Delhi-Mumbai Expressway", "Pune City", "Chennai Central",
     "Kolkata Village", "Bangalore", "Hyderabad", "Ahmedabad", "Metro Station",
     "City Centre", "Downtown Village", "Village near City", "Green Village",
     "COUNTRYSIDE", "Rural Outskirts", "Commercial Street", "CENTRAL PARK",
     "default_rural city", "default_urban village", "Default_Urban",
     "Nowhere", "Bengaluru", "Mum bai", ""}

\* the digest, evaluated once per known seed string
KnownSeedStrings ==
    {l \o "_" \o w \o "_" \o t \o "_" \o r :
        l \in {"Mumbai, Maharashtra", "New Delhi", "Green Village", "Nowhere"},
        w \in {"Clear", "Rainy", "Foggy", "Snowy", "Stormy", "Hazy"},
        t \in {"Morning", "Afternoon", "Evening", "Night", "Dawn"},
        r \in {"Highway", "City_Road", "Rural_Road", "Expressway"}}
    \cup {l \o "_Clear_Afternoon_City_Road" : l \in LocationSamples}
    \cup {l \o "_" \o w \o "_" \o t \o "_City_Road" :
              l \in CityNames, w \in {"Clear", "Rainy"},
              t \in {"Morning", "Afternoon", "Evening", "Night"}}

DigestMemo == [s \in KnownSeedStrings |-> Digest(s, 7)]


digest_of(s) == IF s \in KnownSeedStrings THEN DigestMemo[s] ELSE Digest(s, 7)

\* a seed string that also names the vehicle
seed_string_with_vehicle(location, conditions) ==
    location \o "_" \o conditions.weather \o "_" \o conditions.time_of_day
             \o "_" \o conditions.road_type \o "_" \o conditions.vehicle_type

seed_string(location, conditions) ==
    location \o "_" \o conditions.weather \o "_" \o conditions.time_of_day
             \o "_" \o conditions.road_type

_generate_seed(location, conditions) ==
    digest_of(seed_string(location, conditions))

(***************************************************************************)
(* round(x, ndigits) on the exact value num/den: nearest, halves to even   *)
(***************************************************************************)
RoundHalfEven(num, den) ==
    LET q == num \div den
        r == num % den
    IN  IF 2 * r > den \/ (2 * r = den /\ q % 2 = 1) THEN q + 1 ELSE q

(***************************************************************************)
(* predict_accident_risk, lines 146-221: the accumulated total_risk.       *)
(* A table indexed with [] raises KeyError on a value outside the table.   *)
(***************************************************************************)
RaisesKeyError(c) ==
    \/ c.license_valid \notin DOMAIN W_license_valid
    \/ c.seatbelt \notin DOMAIN W_seatbelt
    \/ c.road_surface \notin DOMAIN W_road_surface
    \/ c.visibility \notin DOMAIN W_visibility
    \/ c.light_condition \notin DOMAIN W_light_condition
    \/ c.road_type \notin DOMAIN W_road_type
    \/ c.road_design \notin DOMAIN W_road_design
    \/ c.traffic_volume \notin DOMAIN W_traffic_volume
    \/ c.time_of_day \notin DOMAIN W_time_of_day
    \/ c.area_type \notin DOMAIN W_area_type
    \/ c.overtaking \notin DOMAIN W_overtaking
    \/ c.alcohol \notin DOMAIN W_alcohol
    \/ c.phone_usage \notin DOMAIN W_phone_usage

\* _get_location_risk and _generate_seed, evaluated once per known input
KnownLocations == {"Mumbai, Maharashtra", "New Delhi", "Green Village", "Nowhere"}

MemoLocations == KnownLocations \cup LocationSamples \cup CityNames

LocationRiskMemo == [l \in MemoLocations |-> _get_location_risk(l)]

location_risk(location) ==
    IF location \in MemoLocations THEN LocationRiskMemo[location]
    ELSE _get_location_risk(location)

\* the two speeds passed in the other order
speed_contribution_limit_first(c) ==
    _calculate_speed_risk(c.speed_limit, c.current_speed)

speed_contribution(c) == _calculate_speed_risk(c.current_speed, c.speed_limit)

\* the history term subtracted instead of added
accident_history_contribution_subtracted(c) ==
    0 - c.accident_history * W_accident_history

accident_history_contribution(c) == c.accident_history * W_accident_history

\* the sum without the location's base risk
total_risk_of_without_location(location, c) ==
    _get(W_vehicle_type, c.vehicle_type, UnknownWeight)
    + W_driver_age[_calculate_age_risk(c.driver_age)]
    + W_experience[_calculate_experience_risk(c.experience)]
    + W_license_valid[c.license_valid]
    + W_seatbelt[c.seatbelt]
    + _get(W_weather, c.weather, UnknownWeight)
    + W_road_surface[c.road_surface]
    + W_visibility[c.visibility]
    + W_light_condition[c.light_condition]
    + W_road_type[c.road_type]
    + W_road_design[c.road_design]
    + W_traffic_volume[c.traffic_volume]
    + speed_contribution(c)
    + W_time_of_day[c.time_of_day]
    + W_day_of_week[IF c.is_weekend THEN "weekend" ELSE "weekday"]
    + W_area_type[c.area_type]
    + W_overtaking[c.overtaking]
    + W_alcohol[c.alcohol]
    + W_phone_usage[c.phone_usage]
    + accident_history_contribution(c)

total_risk_of(location, c) ==
    location_risk(location)
    + _get(W_vehicle_type, c.vehicle_type, UnknownWeight)
    + W_driver_age[_calculate_age_risk(c.driver_age)]
    + W_experience[_calculate_experience_risk(c.experience)]
    + W_license_valid[c.license_valid]
    + W_seatbelt[c.seatbelt]
    + _get(W_weather, c.weather, UnknownWeight)
    + W_road_surface[c.road_surface]
    + W_visibility[c.visibility]
    + W_light_condition[c.light_condition]
    + W_road_type[c.road_type]
    + W_road_design[c.road_design]
    + W_traffic_volume[c.traffic_volume]
    + speed_contribution(c)
    + W_time_of_day[c.time_of_day]
    + W_day_of_week[IF c.is_weekend THEN "weekend" ELSE "weekday"]
    + W_area_type[c.area_type]
    + W_overtaking[c.overtaking]
    + W_alcohol[c.alcohol]
    + W_phone_usage[c.phone_usage]
    + accident_history_contribution(c)

(***************************************************************************)
(* lines 223-228: normalisation and jitter                                 *)
(***************************************************************************)
\* total_risk divided by 4.0 instead of 8.0
normalized_risk_of_by_four(total_risk) == Min(Max(20 * total_risk, 400), 7600)

\* min(max(total_risk / 8.0, 0.05), 0.95), in 1/8000
normalized_risk_of(total_risk) == Min(Max(10 * total_risk, 400), 7600)

\* the cap of line 228 left out
final_risk_of_uncapped(normalized_risk, random_factor) ==
    normalized_risk * random_factor

\* min(normalized_risk * random_factor, 0.95), in 1/800000
final_risk_of(normalized_risk, random_factor) ==
    Min(normalized_risk * random_factor, 760000)

(***************************************************************************)
(* lines 230-245: severity, severity_code, color, risk_level               *)
(***************************************************************************)
\* the thresholds of lines 231 and 236 taken inclusively (<= for <)
severity_of_inclusive(final_risk) ==
    IF final_risk <= 240000
    THEN [severity |-> "Low", severity_code |-> 0, color |-> "#28a745",
          risk_level |-> "Low Risk"]
    ELSE IF final_risk <= 480000
    THEN [severity |-> "Medium", severity_code |-> 1, color |-> "#ffc107",
          risk_level |-> "Medium Risk"]
    ELSE [severity |-> "High", severity_code |-> 2, color |-> "#dc3545",
          risk_level |-> "High Risk"]

severity_of(final_risk) ==
    IF final_risk < 240000
    THEN [severity |-> "Low", severity_code |-> 0, color |-> "#28a745",
          risk_level |-> "Low Risk"]
    ELSE IF final_risk < 480000
    THEN [severity |-> "Medium", severity_code |-> 1, color |-> "#ffc107",
          risk_level |-> "Medium Risk"]
    ELSE [severity |-> "High", severity_code |-> 2, color |-> "#dc3545",
          risk_level |-> "High Risk"]

(***************************************************************************)
(* lines 247-265: the probability triple, in 1/80000000                    *)
(***************************************************************************)
ProbOne == 80000000

\* the same small addition for every bucket
own_range_small(severity_code) == <<0, 10>>

\* the uniform range added to final_risk for the bucket's own probability
own_range(severity_code) ==
    IF severity_code = 0 THEN <<40, 50>>
    ELSE IF severity_code = 1 THEN <<20, 30>>
    ELSE <<10, 20>>

\* the uniform range that splits the remainder
split_range(severity_code) ==
    IF severity_code = 0 THEN <<60, 80>>
    ELSE IF severity_code = 1 THEN <<30, 60>>
    ELSE <<40, 70>>

\* prob /= total_prob
normalize_prob(p, total_prob) ==
    IF total_prob = ProbOne THEN p
    ELSE (p \div (total_prob \div 10000)) * (ProbOne \div 10000)

probabilities_of(severity_code, final_risk, u_own, u_split) ==
    LET own   == (final_risk + u_own * 8000) * 100
        other == ((ProbOne - own) \div 100) * u_split
        rest  == ProbOne - own - other
        raw   == IF severity_code = 0
                 THEN [low |-> own, medium |-> other, high |-> rest]
                 ELSE IF severity_code = 1
                 THEN [low |-> other, medium |-> own, high |-> rest]
                 ELSE [low |-> rest, medium |-> other, high |-> own]
        total_prob == raw.low + raw.medium + raw.high
    IN  [low    |-> normalize_prob(raw.low, total_prob),
         medium |-> normalize_prob(raw.medium, total_prob),
         high   |-> normalize_prob(raw.high, total_prob)]

\* line 268: min(max(final_risk + uniform(0.1, 0.2), 0.6), 0.95), in 1/800000
confidence_of(final_risk, u_conf) ==
    Min(Max(final_risk + u_conf * 8000, 480000), 760000)

(***************************************************************************)
(* _generate_recommendations                                               *)
(***************************************************************************)
MaxRecommendations == 6

FirstN(seq, n) == SubSeq(seq, 1, Min(Len(seq), n))

all_recommendations(conditions, severity_code) ==
    (IF conditions.weather \in {"Rainy", "Foggy", "Snowy", "Stormy"}
     THEN <<"Reduce speed due to adverse weather conditions",
            "Increase following distance">>
     ELSE <<>>)
    \o (IF conditions.current_speed > conditions.speed_limit
        THEN <<"Reduce speed to within " \o ToString(conditions.speed_limit)
                   \o " km/h limit">>
        ELSE <<>>)
    \o (IF Contains(conditions.light_condition, "Night")
        THEN <<"Use headlights and drive cautiously at night">>
        ELSE <<>>)
    \o (IF conditions.vehicle_type = "Bike"
        THEN <<"Wear helmet and protective gear">>
        ELSE <<>>)
    \o (IF conditions.seatbelt = "no"
        THEN <<"Always wear seatbelt for safety">>
        ELSE <<>>)
    \o (IF conditions.alcohol = "yes"
        THEN <<"Never drive under influence of alcohol">>
        ELSE <<>>)
    \o (IF conditions.phone_usage = "yes"
        THEN <<"Avoid phone usage while driving">>
        ELSE <<>>)
    \o (IF severity_code >= 2
        THEN <<"Consider postponing travel if possible",
               "Extra caution required - high risk conditions">>
        ELSE IF severity_code = 1
        THEN <<"Drive with increased attention">>
        ELSE <<>>)

\* the [:6] of line 349 left out
_generate_recommendations_uncut(conditions, severity_code) ==
    all_recommendations(conditions, severity_code)

_generate_recommendations(conditions, severity_code) ==
    FirstN(all_recommendations(conditions, severity_code), MaxRecommendations)

(***************************************************************************)
(* _identify_risk_factors                                                  *)
(***************************************************************************)
\* an alcohol entry added to the risk factors
_identify_risk_factors_with_alcohol(conditions) ==
    (IF conditions.weather # "Clear"
     THEN <<"Weather: " \o conditions.weather>> ELSE <<>>)
    \o (IF conditions.road_surface # "Dry"
        THEN <<"Road Surface: " \o conditions.road_surface>> ELSE <<>>)
    \o (IF conditions.visibility # "high" THEN <<"Poor Visibility">> ELSE <<>>)
    \o (IF Contains(conditions.light_condition, "Night")
        THEN <<"Night Driving">> ELSE <<>>)
    \o (IF conditions.traffic_volume = "High" THEN <<"Heavy Traffic">> ELSE <<>>)
    \o (IF conditions.current_speed > conditions.speed_limit
        THEN <<"Speeding">> ELSE <<>>)
    \o (IF conditions.road_design \in {"Junction", "Curved"}
        THEN <<"Road Design: " \o conditions.road_design>> ELSE <<>>)
    \o (IF conditions.driver_age < 25 THEN <<"Young Driver">> ELSE <<>>)
    \o (IF conditions.experience < 2 THEN <<"Inexperienced Driver">> ELSE <<>>)
    \o (IF conditions.alcohol = "yes" THEN <<"Alcohol">> ELSE <<>>)

\* the speed test moved to the head of the list
_identify_risk_factors_speed_first(conditions) ==
    (IF conditions.current_speed > conditions.speed_limit
     THEN <<"Speeding">> ELSE <<>>)
    \o (IF conditions.weather # "Clear"
        THEN <<"Weather: " \o conditions.weather>> ELSE <<>>)
    \o (IF conditions.road_surface # "Dry"
        THEN <<"Road Surface: " \o conditions.road_surface>> ELSE <<>>)
    \o (IF conditions.visibility # "high" THEN <<"Poor Visibility">> ELSE <<>>)
    \o (IF Contains(conditions.light_condition, "Night")
        THEN <<"Night Driving">> ELSE <<>>)
    \o (IF conditions.traffic_volume = "High" THEN <<"Heavy Traffic">> ELSE <<>>)
    \o (IF conditions.road_design \in {"Junction", "Curved"}
        THEN <<"Road Design: " \o conditions.road_design>> ELSE <<>>)
    \o (IF conditions.driver_age < 25 THEN <<"Young Driver">> ELSE <<>>)
    \o (IF conditions.experience < 2 THEN <<"Inexperienced Driver">> ELSE <<>>)

_identify_risk_factors(conditions) ==
    (IF conditions.weather # "Clear"
     THEN <<"Weather: " \o conditions.weather>> ELSE <<>>)
    \o (IF conditions.road_surface # "Dry"
        THEN <<"Road Surface: " \o conditions.road_surface>> ELSE <<>>)
    \o (IF conditions.visibility # "high" THEN <<"Poor Visibility">> ELSE <<>>)
    \o (IF Contains(conditions.light_condition, "Night")
        THEN <<"Night Driving">> ELSE <<>>)
    \o (IF conditions.traffic_volume = "High" THEN <<"Heavy Traffic">> ELSE <<>>)
    \o (IF conditions.current_speed > conditions.speed_limit
        THEN <<"Speeding">> ELSE <<>>)
    \o (IF conditions.road_design \in {"Junction", "Curved"}
        THEN <<"Road Design: " \o conditions.road_design>> ELSE <<>>)
    \o (IF conditions.driver_age < 25 THEN <<"Young Driver">> ELSE <<>>)
    \o (IF conditions.experience < 2 THEN <<"Inexperienced Driver">> ELSE <<>>)

(***************************************************************************)
(* predict_accident_risk, lines 270-302: the returned dictionaries         *)
(***************************************************************************)
\* len(conditions)
features_analyzed(conditions) == Cardinality(DOMAIN conditions)

success_result(location, conditions, final_risk, sev, probs, confidence) ==
    [success            |-> TRUE,
     location           |-> location,
     predicted_severity |-> sev.risk_level,
     severity_code      |-> sev.severity_code,
     confidence         |-> RoundHalfEven(confidence, 800),
     risk_score         |-> RoundHalfEven(final_risk, 800),
     probabilities      |-> [low    |-> RoundHalfEven(probs.low, 80000),
                             medium |-> RoundHalfEven(probs.medium, 80000),
                             high   |-> RoundHalfEven(probs.high, 80000)],
     color              |-> sev.color,
     recommendations    |-> _generate_recommendations(conditions, sev.severity_code),
     risk_factors       |-> _identify_risk_factors(conditions),
     features_analyzed  |-> features_analyzed(conditions)]

\* the except branch reporting success
failure_result_marked_success(location) ==
    [success  |-> TRUE,
     error    |-> "Prediction calculation failed",
     location |-> location]

failure_result(location) ==
    [success  |-> FALSE,
     error    |-> "Prediction calculation failed",
     location |-> location]

(***************************************************************************)
(* predict_accident_risk as one call: what it returns, its local variables *)
(* at the return, and the state it leaves the global generator in.         *)
(* np.random is seeded as well and never drawn from.  The timestamp field  *)
(* (datetime.now()) is left out of the result.                             *)
(***************************************************************************)
\* lines 146-245: the locals up to the severity, given the jitter drawn
jittered(location, conditions, random_factor) ==
    LET total_risk      == total_risk_of(location, conditions)
        normalized_risk == normalized_risk_of(total_risk)
        final_risk      == final_risk_of(normalized_risk, random_factor)
    IN  [total_risk |-> total_risk, normalized_risk |-> normalized_risk,
         final_risk |-> final_risk, sev |-> severity_of(final_risk)]

\* lines 247-294: the rest of the call, given all four draws
finish(location, conditions, seed, random_factor, u_own, u_split, u_conf) ==
    LET j          == jittered(location, conditions, random_factor)
        probs      == probabilities_of(j.sev.severity_code, j.final_risk,
                                       u_own, u_split)
        confidence == confidence_of(j.final_risk, u_conf)
    IN  [result |-> success_result(location, conditions, j.final_risk, j.sev,
                                   probs, confidence),
         locals |-> [seed |-> seed, raised |-> FALSE,
                     location_risk |-> location_risk(location),
                     age_category |-> _calculate_age_risk(conditions.driver_age),
                     exp_category |->
                         _calculate_experience_risk(conditions.experience),
                     total_risk |-> j.total_risk,
                     speed_risk |-> speed_contribution(conditions),
                     normalized_risk |-> j.normalized_risk,
                     random_factor |-> random_factor,
                     final_risk |-> j.final_risk,
                     severity |-> j.sev.severity,
                     draws |-> <<random_factor, u_own, u_split, u_conf>>,
                     probs |-> probs]]

\* lines 296-302: the except branch
raised(location, seed) ==
    [result |-> failure_result(location),
     locals |-> [seed |-> seed, raised |-> TRUE]]

predict_accident_risk(location, conditions) ==
    LET seed == _generate_seed(location, conditions)
        g0   == random_seed(seed)
    IN  IF RaisesKeyError(conditions)
        THEN raised(location, seed) @@ [rng |-> g0]
        ELSE
        LET random_factor == random_uniform(g0, 95, 105)
            g1            == random_advance(g0)
            code          == jittered(location, conditions,
                                      random_factor).sev.severity_code
            u_own         == random_uniform(g1, own_range(code)[1],
                                            own_range(code)[2])
            g2            == random_advance(g1)
            u_split       == random_uniform(g2, split_range(code)[1],
                                            split_range(code)[2])
            g3            == random_advance(g2)
            u_conf        == random_uniform(g3, 10, 20)
            g4            == random_advance(g3)
        IN  finish(location, conditions, seed, random_factor, u_own, u_split,
                   u_conf) @@ [rng |-> g4]

(***************************************************************************)
(* AccidentPredictor.predict_comprehensive_risk: reformats a successful    *)
(* engine result, passes a failed one through.                             *)
(***************************************************************************)
RiskZoneThreshold == 700

\* the formatted severity_code counted from 1
format_result_code_from_one(location, r) ==
    IF r.success
    THEN [success            |-> TRUE,
          location           |-> [address |-> location,
                                  risk_zone |-> r.risk_score > RiskZoneThreshold],
          predicted_severity |-> r.predicted_severity,
          severity_code      |-> r.severity_code + 1,
          confidence         |-> r.confidence,
          risk_score         |-> r.risk_score,
          probabilities      |-> [slight  |-> r.probabilities.low,
                                  serious |-> r.probabilities.medium,
                                  fatal   |-> r.probabilities.high],
          risk_level         |-> r.predicted_severity,
          color              |-> r.color,
          recommendations    |-> r.recommendations,
          risk_factors       |-> r.risk_factors,
          model_classes      |-> 3,
          debug_info         |-> [original_probabilities |->
                                      <<r.probabilities.low, r.probabilities.medium,
                                        r.probabilities.high>>,
                                  prediction_raw |-> r.severity_code,
                                  features_analyzed |-> r.features_analyzed]]
    ELSE r

format_result(location, r) ==
    IF r.success
    THEN [success            |-> TRUE,
          location           |-> [address |-> location,
                                  risk_zone |-> r.risk_score > RiskZoneThreshold],
          predicted_severity |-> r.predicted_severity,
          severity_code      |-> r.severity_code,
          confidence         |-> r.confidence,
          risk_score         |-> r.risk_score,
          probabilities      |-> [slight  |-> r.probabilities.low,
                                  serious |-> r.probabilities.medium,
                                  fatal   |-> r.probabilities.high],
          risk_level         |-> r.predicted_severity,
          color              |-> r.color,
          recommendations    |-> r.recommendations,
          risk_factors       |-> r.risk_factors,
          model_classes      |-> 3,
          debug_info         |-> [original_probabilities |->
                                      <<r.probabilities.low, r.probabilities.medium,
                                        r.probabilities.high>>,
                                  prediction_raw |-> r.severity_code,
                                  features_analyzed |-> r.features_analyzed]]
    ELSE r

(***************************************************************************)
(* Requests.  test_conditions is AccidentPredictor.test_prediction's       *)
(* input; the other two are the in-domain conditions of least and of most  *)
(* total risk.  Variants change one field to an in-domain or out-of-domain *)
(* value.                                                                  *)
(***************************************************************************)
test_conditions ==
    [vehicle_type |-> "Car", driver_age |-> 28, experience |-> 5,
     license_valid |-> "yes", seatbelt |-> "yes", weather |-> "Clear",
     road_surface |-> "Dry", visibility |-> "high", light_condition |-> "Daylight",
     road_type |-> "City_Road", road_design |-> "Straight",
     traffic_volume |-> "Medium", speed_limit |-> 60, current_speed |-> 55,
     time_of_day |-> "Afternoon", is_weekend |-> FALSE, area_type |-> "Urban",
     overtaking |-> "no", alcohol |-> "no", phone_usage |-> "no",
     accident_history |-> 1]

SafestConditions ==
    [vehicle_type |-> "Car", driver_age |-> 45, experience |-> 12,
     license_valid |-> "yes", seatbelt |-> "yes", weather |-> "Clear",
     road_surface |-> "Dry", visibility |-> "high", light_condition |-> "Daylight",
     road_type |-> "City_Road", road_design |-> "Straight",
     traffic_volume |-> "Low", speed_limit |-> 60, current_speed |-> 60,
     time_of_day |-> "Afternoon", is_weekend |-> FALSE, area_type |-> "Suburban",
     overtaking |-> "no", alcohol |-> "no", phone_usage |-> "no",
     accident_history |-> 0]

RiskiestConditions ==
    [vehicle_type |-> "Bike", driver_age |-> 19, experience |-> 1,
     license_valid |-> "no", seatbelt |-> "no", weather |-> "Stormy",
     road_surface |-> "Icy", visibility |-> "low",
     light_condition |-> "Night_without_lights",
     road_type |-> "Highway", road_design |-> "Junction",
     traffic_volume |-> "High", speed_limit |-> 60, current_speed |-> 210,
     time_of_day |-> "Night", is_weekend |-> TRUE, area_type |-> "Rural",
     overtaking |-> "yes", alcohol |-> "yes", phone_usage |-> "yes",
     accident_history |-> 5]

FieldValues ==
    [vehicle_type |-> {"Car", "Bike", "Truck", "Bus", "Auto-rickshaw", "Bicycle"},
     driver_age |-> {19, 24, 25, 30, 40, 41, 60, 61},
     experience |-> {1, 2, 5, 6, 10, 11},
     license_valid |-> {"yes", "no"},
     seatbelt |-> {"yes", "no"},
     weather |-> {"Clear", "Rainy", "Foggy", "Snowy", "Stormy", "Hazy"},
     road_surface |-> {"Dry", "Wet", "Icy", "Muddy", "Oily"},
     visibility |-> {"high", "medium", "low"},
     light_condition |-> {"Daylight", "Night_with_lights", "Night_without_lights"},
     road_type |-> {"Highway", "City_Road", "Rural_Road"},
     road_design |-> {"Straight", "Curved", "Junction", "Roundabout"},
     traffic_volume |-> {"Low", "Medium", "High"},
     speed_limit |-> {50, 60},
     current_speed |-> {55, 60, 61, 210},
     time_of_day |-> {"Morning", "Afternoon", "Evening", "Night"},
     is_weekend |-> {FALSE, TRUE},
     area_type |-> {"Urban", "Suburban", "Rural"},
     overtaking |-> {"yes", "no"},
     alcohol |-> {"yes", "no"},
     phone_usage |-> {"yes", "no"},
     accident_history |-> {-15, 0, 1, 2, 12, 80}]

Variants(base) ==
    {base} \cup {[base EXCEPT ![f] = v] : <<f, v>> \in
                    UNION {{<<f, v>> : v \in FieldValues[f]} : f \in DOMAIN base}}

Locations == KnownLocations

BaseRequests ==
    {[location |-> "Mumbai, Maharashtra", conditions |-> test_conditions],
     [location |-> "Green Village", conditions |-> SafestConditions],
     [location |-> "New Delhi", conditions |-> RiskiestConditions]}

Requests ==
    UNION {{[location |-> l, conditions |-> b.conditions] : l \in Locations}
           \cup {[location |-> b.location, conditions |-> c] :
                    c \in Variants(b.conditions)} : b \in BaseRequests}

NoResult == [called |-> FALSE]

NoThreads == [t \in {} |-> 0]

\* the values of api.py's global `predictor`: None, or the AccidentPredictor
\* that app.py's create_app hands to init_api
None == "None"

AccidentPredictorInstance == "AccidentPredictor"

(***************************************************************************)
(* Scoring of one request.  The generator is in whatever state earlier     *)
(* calls left it in.                                                       *)
(***************************************************************************)
EarlierRngStates == {[seed |-> 0, n |-> 0], [seed |-> 1, n |-> DrawsPerCall]}

Init ==
    /\ rng \in EarlierRngStates
    /\ mt \in MTTables
    /\ request \in Requests
    /\ result = NoResult
    /\ locals = NoResult
    /\ formatted = NoResult
    /\ earlier = NoResult
    /\ threads = NoThreads
    /\ predictor = AccidentPredictorInstance
    /\ response = NoResult

\* a direct call of the engine: SmartAccidentPredictor.predict_accident_risk
CallEngine(r) ==
    LET out == predict_accident_risk(r.location, r.conditions)
    IN  /\ rng' = out.rng
        /\ result' = out.result
        /\ locals' = out.locals
        /\ formatted' = NoResult

\* a call through AccidentPredictor.predict_comprehensive_risk
CallComprehensive(r) ==
    LET out == predict_accident_risk(r.location, r.conditions)
    IN  /\ rng' = out.rng
        /\ result' = out.result
        /\ locals' = out.locals
        /\ formatted' = format_result(r.location, out.result)

EngineCall ==
    /\ result = NoResult
    /\ CallEngine(request)
    /\ UNCHANGED <<mt, request, earlier, threads, predictor, response>>

ComprehensiveCall ==
    /\ result = NoResult
    /\ CallComprehensive(request)
    /\ UNCHANGED <<mt, request, earlier, threads, predictor, response>>

Next == EngineCall \/ ComprehensiveCall

Spec == Init /\ [][Next]_vars

(***************************************************************************)
(* Scoring over a range of speeds: test_conditions with every current      *)
(* speed from MaxSpeedUnder below to MaxSpeedOver above a few limits.      *)
(***************************************************************************)
MaxSpeedOver == 160

MaxSpeedUnder == 3

SpeedLimits == {0, 60}

SpeedRequests ==
    {[location |-> "Mumbai, Maharashtra",
      conditions |-> [test_conditions EXCEPT !.speed_limit = sl,
                                             !.current_speed = sl + d]] :
        sl \in SpeedLimits, d \in (0 - MaxSpeedUnder)..MaxSpeedOver}

InitSpeed ==
    /\ rng = [seed |-> 0, n |-> 0]
    /\ mt \in MTTables
    /\ request \in SpeedRequests
    /\ result = NoResult
    /\ locals = NoResult
    /\ formatted = NoResult
    /\ earlier = NoResult
    /\ threads = NoThreads
    /\ predictor = AccidentPredictorInstance
    /\ response = NoResult

NextSpeed == EngineCall

SpecSpeed == InitSpeed /\ [][NextSpeed]_vars

(***************************************************************************)
(* Scoring of requests with a field outside its table or a negative        *)
(* number: each base request with one exact-lookup field replaced by a     *)
(* value the table does not have (alone, and next to an unknown            *)
(* vehicle_type and weather), with all of them replaced, and with one      *)
(* numeric field negative.                                                 *)
(***************************************************************************)
OutsideValue ==
    [license_valid |-> "maybe", seatbelt |-> "maybe", road_surface |-> "Oily",
     visibility |-> "poor", light_condition |-> "Twilight",
     road_type |-> "Expressway", road_design |-> "Bridge",
     traffic_volume |-> "Very_High", time_of_day |-> "Dawn",
     area_type |-> "Metro", overtaking |-> "maybe", alcohol |-> "maybe",
     phone_usage |-> "maybe"]

ExactLookupFields == DOMAIN OutsideValue

NumericFields ==
    {"driver_age", "experience", "speed_limit", "current_speed",
     "accident_history"}

MaxNegative == 30

NegativeValues == {0 - 1, 0 - MaxNegative}

AllOutside(c) ==
    [f \in DOMAIN c |-> IF f \in ExactLookupFields THEN OutsideValue[f] ELSE c[f]]

InvalidVariants(c) ==
    {c, AllOutside(c)}
    \cup {[c EXCEPT ![f] = OutsideValue[f]] : f \in ExactLookupFields}
    \cup {[c EXCEPT ![f] = OutsideValue[f], !.vehicle_type = "Bicycle",
                    !.weather = "Hazy"] : f \in ExactLookupFields}
    \cup {[c EXCEPT ![f] = v] : f \in NumericFields, v \in NegativeValues}

InvalidRequests ==
    UNION {{[location |-> b.location, conditions |-> c] :
               c \in InvalidVariants(b.conditions)} : b \in BaseRequests}

InitInvalid ==
    /\ rng = [seed |-> 0, n |-> 0]
    /\ mt \in MTTables
    /\ request \in InvalidRequests
    /\ result = NoResult
    /\ locals = NoResult
    /\ formatted = NoResult
    /\ earlier = NoResult
    /\ threads = NoThreads
    /\ predictor = AccidentPredictorInstance
    /\ response = NoResult

SpecInvalid == InitInvalid /\ [][Next]_vars

(***************************************************************************)
(* Scoring over the whole range of total risk: test_conditions at Mumbai   *)
(* with every accident_history from MaxHistoryBelow under to               *)
(* MaxHistoryAbove over zero, which takes normalized_risk from its lower   *)
(* clamp 0.05 to its upper clamp 0.95 in steps of 0.0125.                  *)
(***************************************************************************)
MaxHistoryBelow == 37

MaxHistoryAbove == 45

RiskRequests ==
    {[location |-> "Mumbai, Maharashtra",
      conditions |-> [test_conditions EXCEPT !.accident_history = h]] :
        h \in (0 - MaxHistoryBelow)..MaxHistoryAbove}

InitRisk ==
    /\ rng = [seed |-> 0, n |-> 0]
    /\ mt \in MTTables
    /\ request \in RiskRequests
    /\ result = NoResult
    /\ locals = NoResult
    /\ formatted = NoResult
    /\ earlier = NoResult
    /\ threads = NoThreads
    /\ predictor = AccidentPredictorInstance
    /\ response = NoResult

NextRisk == EngineCall

SpecRisk == InitRisk /\ [][NextRisk]_vars

(***************************************************************************)
(* Scoring of test_conditions at a range of locations: table cities in     *)
(* several letter cases, two cities in one string, urban and rural         *)
(* keywords alone and together, the table's default keys, and strings      *)
(* that match nothing.                                                     *)
(***************************************************************************)
InitLocation ==
    /\ rng = [seed |-> 0, n |-> 0]
    /\ mt \in MTTables
    /\ request \in {[location |-> l, conditions |-> test_conditions] :
                       l \in LocationSamples}
    /\ result = NoResult
    /\ locals = NoResult
    /\ formatted = NoResult
    /\ earlier = NoResult
    /\ threads = NoThreads
    /\ predictor = AccidentPredictorInstance
    /\ response = NoResult

SpecLocation == InitLocation /\ [][Next]_vars

(***************************************************************************)
(* Scoring over every age and every experience in a range:                 *)
(* test_conditions at Mumbai with the driver's age or experience replaced. *)
(***************************************************************************)
MaxAge == 70

MaxExperience == 15

BucketRequests ==
    {[location |-> "Mumbai, Maharashtra",
      conditions |-> [test_conditions EXCEPT !.driver_age = a]] : a \in 0..MaxAge}
    \cup {[location |-> "Mumbai, Maharashtra",
           conditions |-> [test_conditions EXCEPT !.experience = e]] :
               e \in 0..MaxExperience}

InitBuckets ==
    /\ rng = [seed |-> 0, n |-> 0]
    /\ mt \in {<<1, 2, 3, 1>>, <<3, 1, 2, 2>>}
    /\ request \in BucketRequests
    /\ result = NoResult
    /\ locals = NoResult
    /\ formatted = NoResult
    /\ earlier = NoResult
    /\ threads = NoThreads
    /\ predictor = AccidentPredictorInstance
    /\ response = NoResult

SpecBuckets == InitBuckets /\ [][Next]_vars

(***************************************************************************)
(* A sequence of calls on one process, one after the other.  `earlier`     *)
(* keeps any one of the calls already finished.                            *)
(***************************************************************************)
MaxAccidentHistory == 2

CallRequests ==
    {[location |-> "Mumbai, Maharashtra",
      conditions |-> [test_conditions EXCEPT !.vehicle_type = v,
                                             !.accident_history = h]] :
        v \in {"Car", "Bicycle"}, h \in (0..MaxAccidentHistory) \cup {80}}
    \cup {[location |-> "Nowhere", conditions |-> test_conditions]}

InitCalls ==
    /\ rng \in EarlierRngStates
    /\ mt \in MTTables
    /\ request \in CallRequests
    /\ result = NoResult
    /\ locals = NoResult
    /\ formatted = NoResult
    /\ earlier = NoResult
    /\ threads = NoThreads
    /\ predictor = AccidentPredictorInstance
    /\ response = NoResult

FinishedCall == [request |-> request, result |-> result, locals |-> locals]

\* the next call arrives after the last one has returned
NextRequest ==
    /\ result # NoResult
    /\ \E r \in CallRequests : request' = r
    /\ earlier' \in {earlier, FinishedCall}
    /\ result' = NoResult
    /\ locals' = NoResult
    /\ formatted' = NoResult
    /\ UNCHANGED <<rng, mt, threads, predictor, response>>

NextCalls == EngineCall \/ NextRequest

SpecCalls == InitCalls /\ [][NextCalls]_vars

(***************************************************************************)
(* The threaded server (app.py: threaded=True): each worker thread runs    *)
(* predict_accident_risk for its request.  random.seed and every           *)
(* random.uniform act on the one generator of the `random` module, and a   *)
(* thread switch can fall between any two of them.                         *)
(***************************************************************************)
Threads == {1, 2}

ThreadRequests ==
    {[location |-> "Mumbai, Maharashtra", conditions |-> test_conditions],
     [location |-> "New Delhi", conditions |-> RiskiestConditions]}

IdleThread == [pc |-> "idle"]

InitThreads ==
    /\ rng \in EarlierRngStates
    /\ mt \in MTTables
    /\ request = NoResult
    /\ result = NoResult
    /\ locals = NoResult
    /\ formatted = NoResult
    /\ earlier = NoResult
    /\ threads = [t \in Threads |-> IdleThread]
    /\ predictor = AccidentPredictorInstance
    /\ response = NoResult

\* a request is dispatched to an idle worker
Accept(t) ==
    /\ threads[t].pc = "idle"
    /\ \E r \in ThreadRequests :
           threads' = [threads EXCEPT ![t] = [pc |-> "seed", request |-> r]]
    /\ UNCHANGED <<rng, mt, request, result, locals, formatted, earlier,
                   predictor, response>>

\* lines 142-143: random.seed(seed); then lines 146-224, which draw nothing
SeedStep(t) ==
    LET me   == threads[t]
        seed == _generate_seed(me.request.location, me.request.conditions)
    IN  /\ me.pc = "seed"
        /\ rng' = random_seed(seed)
        /\ threads' = [threads EXCEPT ![t] =
               IF RaisesKeyError(me.request.conditions)
               THEN [pc |-> "done", request |-> me.request,
                     result |-> raised(me.request.location, seed).result]
               ELSE [pc |-> "jitter", request |-> me.request, seed |-> seed]]
        /\ UNCHANGED <<mt, request, result, locals, formatted, earlier,
                       predictor, response>>

\* line 227: random_factor = random.uniform(0.95, 1.05)
JitterStep(t) ==
    LET me == threads[t]
    IN  /\ me.pc = "jitter"
        /\ rng' = random_advance(rng)
        /\ threads' = [threads EXCEPT ![t] =
               [pc |-> "own", request |-> me.request, seed |-> me.seed,
                random_factor |-> random_uniform(rng, 95, 105)]]
        /\ UNCHANGED <<mt, request, result, locals, formatted, earlier,
                       predictor, response>>

\* lines 249, 253, 257: the bucket's own probability
OwnStep(t) ==
    LET me   == threads[t]
        code == jittered(me.request.location, me.request.conditions,
                         me.random_factor).sev.severity_code
    IN  /\ me.pc = "own"
        /\ rng' = random_advance(rng)
        /\ threads' = [threads EXCEPT ![t] =
               [pc |-> "split", request |-> me.request, seed |-> me.seed,
                random_factor |-> me.random_factor,
                u_own |-> random_uniform(rng, own_range(code)[1],
                                         own_range(code)[2])]]
        /\ UNCHANGED <<mt, request, result, locals, formatted, earlier,
                       predictor, response>>

\* lines 250, 254, 258: the split of the remainder
SplitStep(t) ==
    LET me   == threads[t]
        code == jittered(me.request.location, me.request.conditions,
                         me.random_factor).sev.severity_code
    IN  /\ me.pc = "split"
        /\ rng' = random_advance(rng)
        /\ threads' = [threads EXCEPT ![t] =
               [pc |-> "conf", request |-> me.request, seed |-> me.seed,
                random_factor |-> me.random_factor, u_own |-> me.u_own,
                u_split |-> random_uniform(rng, split_range(code)[1],
                                           split_range(code)[2])]]
        /\ UNCHANGED <<mt, request, result, locals, formatted, earlier,
                       predictor, response>>

\* line 268 and the result of lines 270-294
ConfStep(t) ==
    LET me == threads[t]
    IN  /\ me.pc = "conf"
        /\ rng' = random_advance(rng)
        /\ threads' = [threads EXCEPT ![t] =
               [pc |-> "done", request |-> me.request,
                result |-> finish(me.request.location, me.request.conditions,
                                  me.seed, me.random_factor, me.u_own, me.u_split,
                                  random_uniform(rng, 10, 20)).result]]
        /\ UNCHANGED <<mt, request, result, locals, formatted, earlier,
                       predictor, response>>

\* the response is sent and the worker is free again
Return(t) ==
    /\ threads[t].pc = "done"
    /\ threads' = [threads EXCEPT ![t] = IdleThread]
    /\ UNCHANGED <<rng, mt, request, result, locals, formatted, earlier,
                   predictor, response>>

NextThreads ==
    \E t \in Threads :
        \/ Accept(t)
        \/ SeedStep(t)
        \/ JitterStep(t)
        \/ OwnStep(t)
        \/ SplitStep(t)
        \/ ConfStep(t)
        \/ Return(t)

SpecThreads == InitThreads /\ [][NextThreads]_vars

(***************************************************************************)
(* AccidentPredictor.predict_risk and batch_predict (predictor.py).        *)
(* Coordinates are in 1/10000 of a degree (19.0760 -> 190760).  Distances  *)
(* are compared by their squares, kept exactly as <<millions, rest>>; the  *)
(* source compares the square roots in binary floating point.              *)
(***************************************************************************)
Abs(x) == IF x < 0 THEN 0 - x ELSE x

\* d * d as <<millions, rest>>, for |d| below 4,000,000
Square(d) ==
    LET a   == Abs(d) \div 1000
        b   == Abs(d) % 1000
        low == ((2 * a * b) % 1000) * 1000 + b * b
    IN  <<a * a + (2 * a * b) \div 1000 + low \div 1000000, low % 1000000>>

AddWide(x, y) ==
    <<x[1] + y[1] + (x[2] + y[2]) \div 1000000, (x[2] + y[2]) % 1000000>>

LessWide(x, y) == x[1] < y[1] \/ (x[1] = y[1] /\ x[2] < y[2])

\* (lat - city_lat) ** 2 + (lon - city_lon) ** 2
distance_squared(lat, lon, i) ==
    AddWide(Square(lat - locations[i][1]), Square(lon - locations[i][2]))

\* the comparison of line 124 taken as <=: the last of the closest entries
_coordinates_to_location_last_minimum(lat, lon) ==
    LET closest == CHOOSE i \in 1..Len(locations) :
            /\ \A j \in 1..(i - 1) :
                   ~LessWide(distance_squared(lat, lon, j),
                             distance_squared(lat, lon, i))
            /\ \A j \in (i + 1)..Len(locations) :
                   LessWide(distance_squared(lat, lon, i),
                            distance_squared(lat, lon, j))
    IN  locations[closest][3]

\* the loop of lines 119-126: the first entry no later entry is closer than
_coordinates_to_location(lat, lon) ==
    LET closest == CHOOSE i \in 1..Len(locations) :
            /\ \A j \in 1..(i - 1) :
                   LessWide(distance_squared(lat, lon, i),
                            distance_squared(lat, lon, j))
            /\ \A j \in (i + 1)..Len(locations) :
                   ~LessWide(distance_squared(lat, lon, j),
                             distance_squared(lat, lon, i))
    IN  locations[closest][3]

\* the morning band closed at noon (hour <= 12 for hour < 12)
_create_basic_conditions_noon_morning(timestamp) ==
    LET hour    == timestamp.hour
        monsoon == timestamp.month \in {6, 7, 8, 9}
        time_of_day == IF 5 <= hour /\ hour <= 12 THEN "Morning"
                       ELSE IF 12 <= hour /\ hour < 17 THEN "Afternoon"
                       ELSE IF 17 <= hour /\ hour < 21 THEN "Evening"
                       ELSE "Night"
        traffic_volume == IF 5 <= hour /\ hour <= 12 THEN "Medium"
                          ELSE IF 12 <= hour /\ hour < 17 THEN "High"
                          ELSE IF 17 <= hour /\ hour < 21 THEN "High"
                          ELSE "Low"
    IN  [vehicle_type |-> "Car", driver_age |-> 32, experience |-> 8,
         license_valid |-> "yes", seatbelt |-> "yes",
         weather |-> IF monsoon THEN "Rainy" ELSE "Clear",
         road_surface |-> IF monsoon THEN "Wet" ELSE "Dry",
         visibility |-> IF monsoon THEN "medium" ELSE "high",
         light_condition |-> IF 6 <= hour /\ hour <= 18 THEN "Daylight"
                             ELSE "Night_with_lights",
         road_type |-> "City_Road", road_design |-> "Straight",
         traffic_volume |-> traffic_volume, speed_limit |-> 60,
         current_speed |-> 55, time_of_day |-> time_of_day,
         is_weekend |-> timestamp.weekday >= 5, area_type |-> "Urban",
         overtaking |-> "no", alcohol |-> "no", phone_usage |-> "no",
         accident_history |-> 2]

\* the hours without daylight labelled "Night", a value outside the
\* light_condition table
_create_basic_conditions_night_unlit(timestamp) ==
    LET hour    == timestamp.hour
        monsoon == timestamp.month \in {6, 7, 8, 9}
        time_of_day == IF 5 <= hour /\ hour < 12 THEN "Morning"
                       ELSE IF 12 <= hour /\ hour < 17 THEN "Afternoon"
                       ELSE IF 17 <= hour /\ hour < 21 THEN "Evening"
                       ELSE "Night"
        traffic_volume == IF 5 <= hour /\ hour < 12 THEN "Medium"
                          ELSE IF 12 <= hour /\ hour < 17 THEN "High"
                          ELSE IF 17 <= hour /\ hour < 21 THEN "High"
                          ELSE "Low"
    IN  [vehicle_type |-> "Car", driver_age |-> 32, experience |-> 8,
         license_valid |-> "yes", seatbelt |-> "yes",
         weather |-> IF monsoon THEN "Rainy" ELSE "Clear",
         road_surface |-> IF monsoon THEN "Wet" ELSE "Dry",
         visibility |-> IF monsoon THEN "medium" ELSE "high",
         light_condition |-> IF 6 <= hour /\ hour <= 18 THEN "Daylight"
                             ELSE "Night",
         road_type |-> "City_Road", road_design |-> "Straight",
         traffic_volume |-> traffic_volume, speed_limit |-> 60,
         current_speed |-> 55, time_of_day |-> time_of_day,
         is_weekend |-> timestamp.weekday >= 5, area_type |-> "Urban",
         overtaking |-> "no", alcohol |-> "no", phone_usage |-> "no",
         accident_history |-> 2]

\* _create_basic_conditions; timestamp is [hour, month, weekday]
_create_basic_conditions(timestamp) ==
    LET hour    == timestamp.hour
        monsoon == timestamp.month \in {6, 7, 8, 9}
        time_of_day == IF 5 <= hour /\ hour < 12 THEN "Morning"
                       ELSE IF 12 <= hour /\ hour < 17 THEN "Afternoon"
                       ELSE IF 17 <= hour /\ hour < 21 THEN "Evening"
                       ELSE "Night"
        traffic_volume == IF 5 <= hour /\ hour < 12 THEN "Medium"
                          ELSE IF 12 <= hour /\ hour < 17 THEN "High"
                          ELSE IF 17 <= hour /\ hour < 21 THEN "High"
                          ELSE "Low"
    IN  [vehicle_type |-> "Car", driver_age |-> 32, experience |-> 8,
         license_valid |-> "yes", seatbelt |-> "yes",
         weather |-> IF monsoon THEN "Rainy" ELSE "Clear",
         road_surface |-> IF monsoon THEN "Wet" ELSE "Dry",
         visibility |-> IF monsoon THEN "medium" ELSE "high",
         light_condition |-> IF 6 <= hour /\ hour <= 18 THEN "Daylight"
                             ELSE "Night_with_lights",
         road_type |-> "City_Road", road_design |-> "Straight",
         traffic_volume |-> traffic_volume, speed_limit |-> 60,
         current_speed |-> 55, time_of_day |-> time_of_day,
         is_weekend |-> timestamp.weekday >= 5, area_type |-> "Urban",
         overtaking |-> "no", alcohol |-> "no", phone_usage |-> "no",
         accident_history |-> 2]

\* lines 40-82 on the engine's outcome `out`
wrapped_outcome(location, conditions, out) ==
    [formatted |-> format_result(location, out.result), rng |-> out.rng,
     location |-> location, conditions |-> conditions]

\* predict_comprehensive_risk(location, conditions)
predict_comprehensive_risk(location, conditions) ==
    wrapped_outcome(location, conditions,
                    predict_accident_risk(location, conditions))

\* predict_risk(lat, lon) at the clock reading `now`: what the wrapper
\* returns and the generator afterwards
predict_risk(lat, lon, now) ==
    predict_comprehensive_risk(_coordinates_to_location(lat, lon),
                               _create_basic_conditions(now))

\* a (lat, lon) item that unpacks into two numbers
IsPair(item) ==
    /\ Len(item) = 2
    /\ "num" \in DOMAIN item[1] /\ "num" \in DOMAIN item[2]

\* batch_predict, lines 187-196: the results so far, whether the loop
\* raised, and the generator; clocks[i] is the clock reading of item i
RECURSIVE batch_loop(_, _, _, _, _)
RECURSIVE batch_append(_, _, _, _, _)
batch_loop(items, clocks, i, results, g) ==
    IF i > Len(items) THEN [raised |-> FALSE, results |-> results, rng |-> g]
    ELSE IF ~IsPair(items[i]) THEN [raised |-> TRUE, results |-> results, rng |-> g]
    ELSE batch_append(items, clocks, i, results,
                      predict_risk(items[i][1].num, items[i][2].num, clocks[i]))

\* line 194: results.append(result), and on to the next item
batch_append(items, clocks, i, results, one) ==
    batch_loop(items, clocks, i + 1, Append(results, one.formatted), one.rng)

\* the results in reverse order
batch_predict_reversed(items, clocks) ==
    batch_loop([i \in 1..Len(items) |-> items[Len(items) + 1 - i]],
               [i \in 1..Len(items) |-> clocks[Len(items) + 1 - i]],
               1, <<>>, rng)

batch_predict(items, clocks) == batch_loop(items, clocks, 1, <<>>, rng)

(***************************************************************************)
(* api.py, the routes that app.py registers (the second Blueprint of the   *)
(* file, lines 417-636; the first one is rebound at line 420).             *)
(*                                                                         *)
(* A JSON body is None (null), an array, or an object: a function from     *)
(* field names to values.  The value of a numeric field is tagged,         *)
(* [num |-> 55] for a JSON number, [str |-> "55"] for a JSON string and    *)
(* [null |-> TRUE] for null; the other values are strings or booleans.     *)
(***************************************************************************)
Digits == "0123456789"

IsDigit(c) == \E i \in 1..Len(Digits) : SubSeq(Digits, i, i) = c

DigitValue(c) == (CHOOSE i \in 1..Len(Digits) : SubSeq(Digits, i, i) = c) - 1

AllDigits(s) == Len(s) > 0 /\ \A i \in 1..Len(s) : IsDigit(SubSeq(s, i, i))

RECURSIVE DigitsValue(_, _)
DigitsValue(s, acc) ==
    IF Len(s) = 0 THEN acc
    ELSE DigitsValue(SubSeq(s, 2, Len(s)), acc * 10 + DigitValue(SubSeq(s, 1, 1)))

\* str.strip() of blanks
RECURSIVE Strip(_)
Strip(s) ==
    IF Len(s) > 0 /\ SubSeq(s, 1, 1) = " " THEN Strip(SubSeq(s, 2, Len(s)))
    ELSE IF Len(s) > 0 /\ SubSeq(s, Len(s), Len(s)) = " "
    THEN Strip(SubSeq(s, 1, Len(s) - 1))
    ELSE s

\* int(text): blanks stripped, an optional sign, then decimal digits;
\* anything else raises ValueError
ParseInt(text) ==
    LET t      == Strip(text)
        signed == Len(t) > 0 /\ SubSeq(t, 1, 1) \in {"-", "+"}
        body   == IF signed THEN SubSeq(t, 2, Len(t)) ELSE t
        sign   == IF signed /\ SubSeq(t, 1, 1) = "-" THEN 0 - 1 ELSE 1
    IN  IF AllDigits(body)
        THEN [ok |-> TRUE, value |-> sign * DigitsValue(body, 0)]
        ELSE [ok |-> FALSE]

\* int(v) of a JSON value: TypeError on null
IntOf(v) ==
    IF "num" \in DOMAIN v THEN [ok |-> TRUE, value |-> v.num]
    ELSE IF "str" \in DOMAIN v THEN ParseInt(v.str)
    ELSE [ok |-> FALSE]

JsonNone == [kind |-> "null"]

JsonArray == [kind |-> "array"]

JsonObject(fields) == [kind |-> "object", fields |-> fields]

\* `not data`: None and the empty object are falsy
Falsy(data) ==
    \/ data.kind = "null"
    \/ data.kind = "object" /\ DOMAIN data.fields = {}

\* the defaults of data.get(field, default), api.py lines 463-485
ApiDefaults ==
    [vehicle_type |-> "Car", driver_age |-> [num |-> 30],
     experience |-> [num |-> 5], license_valid |-> "yes", seatbelt |-> "yes",
     weather |-> "Clear", road_surface |-> "Dry", visibility |-> "high",
     light_condition |-> "Daylight", road_type |-> "City_Road",
     road_design |-> "Straight", traffic_volume |-> "Medium",
     speed_limit |-> [num |-> 60], current_speed |-> [num |-> 50],
     time_of_day |-> "Afternoon", is_weekend |-> FALSE, area_type |-> "Urban",
     overtaking |-> "no", alcohol |-> "no", phone_usage |-> "no",
     accident_history |-> [num |-> 0]]

ApiDefaultLocation == "Mumbai, Maharashtra"

IntFields ==
    {"driver_age", "experience", "speed_limit", "current_speed",
     "accident_history"}

\* the fields whose int() raises
Unparsable(fields) ==
    {f \in IntFields : ~IntOf(_get(fields, f, ApiDefaults[f])).ok}

\* lines 463-485: the conditions dictionary
api_conditions(fields) ==
    [f \in DOMAIN ApiDefaults |->
        IF f \in IntFields THEN IntOf(_get(fields, f, ApiDefaults[f])).value
        ELSE _get(fields, f, ApiDefaults[f])]

\* a failure body that carries only the message
ApiFailure_without_success(status, message) ==
    [status |-> status, body |-> [error |-> message]]

ApiFailure(status, message) ==
    [status |-> status, body |-> [success |-> FALSE, error |-> message]]

NotCalled == [result |-> NoResult, locals |-> NoResult, formatted |-> NoResult]

\* lines 488-496: the response made of the wrapper's outcome
comprehensive_response(engine, wrapped) ==
    [result |-> engine.result, locals |-> engine.locals,
     formatted |-> wrapped, rng |-> engine.rng,
     response |-> [status |-> IF wrapped.success THEN 200 ELSE 500,
                   body |-> wrapped]]

comprehensive_scored(location, engine) ==
    comprehensive_response(engine, format_result(location, engine.result))

comprehensive_call(location, conditions) ==
    comprehensive_scored(location, predict_accident_risk(location, conditions))

\* predict_comprehensive, lines 431-502: the response, what the scorer and
\* the wrapper returned if they were reached, and the generator afterwards
predict_comprehensive(data) ==
    IF predictor = None
    THEN NotCalled @@ [rng |-> rng,
            response |-> ApiFailure(500, "Prediction service not available")]
    ELSE IF Falsy(data)
    THEN NotCalled @@ [rng |-> rng,
            response |-> ApiFailure(400, "No data provided")]
    ELSE IF data.kind # "object"
    THEN NotCalled @@ [rng |-> rng,
            response |-> ApiFailure(500, "API Error: no attribute get")]
    ELSE IF Unparsable(data.fields) # {}
    THEN NotCalled @@ [rng |-> rng,
            response |-> ApiFailure(500, "API Error: invalid literal for int()")]
    ELSE comprehensive_call(_get(data.fields, "location", ApiDefaultLocation),
                            api_conditions(data.fields))

\* the position of the first "." of s, 0 if there is none
DotAt(s) ==
    IF \E i \in 1..Len(s) : SubSeq(s, i, i) = "."
    THEN CHOOSE i \in 1..Len(s) :
             /\ SubSeq(s, i, i) = "."
             /\ \A j \in 1..(i - 1) : SubSeq(s, j, j) # "."
    ELSE 0

\* 10 ** n
RECURSIVE Pow10(_)
Pow10(n) == IF n = 0 THEN 1 ELSE 10 * Pow10(n - 1)

\* float(text) in 1/10000: blanks stripped, an optional sign, decimal digits
\* with an optional fraction (digits past the fourth are dropped); anything
\* else raises ValueError
ParseFloat(text) ==
    LET t      == Strip(text)
        signed == Len(t) > 0 /\ SubSeq(t, 1, 1) \in {"-", "+"}
        body   == IF signed THEN SubSeq(t, 2, Len(t)) ELSE t
        sign   == IF signed /\ SubSeq(t, 1, 1) = "-" THEN 0 - 1 ELSE 1
        dot    == DotAt(body)
        whole  == IF dot = 0 THEN body ELSE SubSeq(body, 1, dot - 1)
        frac   == IF dot = 0 THEN "" ELSE SubSeq(body, dot + 1, Len(body))
        frac4  == SubSeq(frac, 1, Min(Len(frac), 4))
        wellformed ==
            /\ Len(whole) + Len(frac) > 0
            /\ \A i \in 1..Len(whole) : IsDigit(SubSeq(whole, i, i))
            /\ \A i \in 1..Len(frac) : IsDigit(SubSeq(frac, i, i))
    IN  IF wellformed
        THEN [ok |-> TRUE,
              value |-> sign * (DigitsValue(whole, 0) * 10000
                                + DigitsValue(frac4, 0) * Pow10(4 - Len(frac4)))]
        ELSE [ok |-> FALSE]

\* float(v) of a JSON value: TypeError on null
FloatOf(v) ==
    IF "num" \in DOMAIN v THEN [ok |-> TRUE, value |-> v.num]
    ELSE IF "str" \in DOMAIN v THEN ParseFloat(v.str)
    ELSE [ok |-> FALSE]

DefaultLat == [num |-> 190760]

DefaultLon == [num |-> 728777]

\* lines 530-536: the response made of predict_risk's outcome
legacy_response(lat, lon, now, out) ==
    [result |-> NoResult,
     locals |-> [lat |-> lat, lon |-> lon, now |-> now,
                 location |-> out.location, conditions |-> out.conditions],
     formatted |-> out.formatted, rng |-> out.rng,
     response |-> [status |-> IF out.formatted.success THEN 200 ELSE 500,
                   body |-> out.formatted]]

\* lines 522-528 on the converted coordinates
legacy_call(lat, lon, now) ==
    IF ~lat.ok \/ ~lon.ok
    THEN NotCalled @@ [rng |-> rng,
            response |-> ApiFailure(500, "Legacy API Error: could not convert to float")]
    ELSE legacy_response(lat.value, lon.value, now,
                         predict_risk(lat.value, lon.value, now))

\* predict_legacy, lines 504-545, at the clock reading `now`
predict_legacy(data, now) ==
    IF predictor = None
    THEN NotCalled @@ [rng |-> rng,
            response |-> ApiFailure(500, "Prediction service not available")]
    ELSE IF Falsy(data)
    THEN NotCalled @@ [rng |-> rng,
            response |-> ApiFailure(400, "No data provided")]
    ELSE IF data.kind # "object"
    THEN NotCalled @@ [rng |-> rng,
            response |-> ApiFailure(500, "Legacy API Error: no attribute get")]
    ELSE legacy_call(FloatOf(_get(data.fields, "lat", DefaultLat)),
                     FloatOf(_get(data.fields, "lon", DefaultLon)), now)

\* lines 571-577 and the except of 579-585 on batch_predict's outcome
batch_response(clocks, out) ==
    IF out.raised
    THEN NotCalled @@ [rng |-> out.rng,
            response |-> ApiFailure(500, "Batch API Error: cannot unpack")]
    ELSE [result |-> NoResult,
          locals |-> [clocks |-> clocks],
          formatted |-> NoResult, rng |-> out.rng,
          response |-> [status |-> 200,
                        body |-> [success |-> TRUE, results |-> out.results,
                                  count |-> Len(out.results)]]]

\* batch_predict of api.py, lines 547-585; clocks[i] is the clock reading
\* while item i is scored.  An array body does not hold 'locations'.
api_batch_predict(data, clocks) ==
    IF predictor = None
    THEN NotCalled @@ [rng |-> rng,
            response |-> ApiFailure(500, "Prediction service not available")]
    ELSE IF Falsy(data) \/ data.kind # "object"
            \/ "locations" \notin DOMAIN data.fields
    THEN NotCalled @@ [rng |-> rng,
            response |-> ApiFailure(400, "No locations provided")]
    ELSE batch_response(clocks, batch_predict(data.fields.locations, clocks))

(***************************************************************************)
(* The HTTP service: init_api and the three prediction routes, one request *)
(* per behaviour.  The clock readings are those of datetime.now().         *)
(***************************************************************************)
\* the JSON object a client sends for (location, conditions), numbers as
\* JSON numbers
BodyOf(location, c) ==
    [f \in DOMAIN c \cup {"location"} |->
        IF f = "location" THEN location
        ELSE IF f \in IntFields THEN [num |-> c[f]]
        ELSE c[f]]

\* the same with every number sent as a string
BodyOfStrings(location, c) ==
    [f \in DOMAIN c \cup {"location"} |->
        IF f = "location" THEN location
        ELSE IF f \in IntFields THEN [str |-> ToString(c[f])]
        ELSE c[f]]

EmptyObject == [f \in {} |-> ""]

TestBody == BodyOf("Mumbai, Maharashtra", test_conditions)

UnparsableValues ==
    {[str |-> "fast"], [str |-> "5.5"], [str |-> ""], [null |-> TRUE]}

ParsableValues == {[str |-> " 42 "], [str |-> "-3"], [num |-> 70]}

ComprehensiveBodies ==
    {JsonNone, JsonArray, JsonObject(EmptyObject),
     JsonObject([location |-> "New Delhi"]),
     JsonObject([weather |-> "Stormy"])}
    \cup {JsonObject(BodyOf(b.location, b.conditions)) : b \in BaseRequests}
    \cup {JsonObject(BodyOfStrings(b.location, b.conditions)) : b \in BaseRequests}
    \cup {JsonObject([TestBody EXCEPT ![f] = OutsideValue[f]]) :
              f \in ExactLookupFields}
    \cup {JsonObject([TestBody EXCEPT ![f] = v]) :
              f \in IntFields, v \in UnparsableValues \cup ParsableValues}

\* Mumbai itself, a point nearest New Delhi, one nearest Goa
Coordinates == {<<190760, 728777>>, <<285000, 770000>>, <<150000, 740000>>}

CoordinateItems == {<< [num |-> p[1]], [num |-> p[2]] >> : p \in Coordinates}

LegacyBodies ==
    {JsonNone, JsonArray, JsonObject(EmptyObject),
     JsonObject([lat |-> [num |-> 285000]]),
     JsonObject([lat |-> [str |-> "15.0"], lon |-> [str |-> " 74.00"]]),
     JsonObject([lat |-> [str |-> "north"], lon |-> [num |-> 770000]]),
     JsonObject([lat |-> [num |-> 285000], lon |-> [null |-> TRUE]])}
    \cup {JsonObject([lat |-> i[1], lon |-> i[2]]) : i \in CoordinateItems}

MaxBatch == 2

Lists(S) == UNION {[1..n -> S] : n \in 0..MaxBatch}

MalformedItems == {<< [num |-> 190760] >>, << [str |-> "19.07"], [num |-> 728777] >>}

BatchBodies ==
    {JsonNone, JsonArray, JsonObject(EmptyObject),
     JsonObject([lat |-> [num |-> 285000]])}
    \cup {JsonObject([locations |-> l]) : l \in Lists(CoordinateItems)}
    \cup {JsonObject([locations |-> <<i, m>>]) :
              i \in CoordinateItems, m \in MalformedItems}
    \cup {JsonObject([locations |-> <<m>>]) : m \in MalformedItems}

HttpRequests ==
    {[endpoint |-> "predict_comprehensive", data |-> d] : d \in ComprehensiveBodies}
    \cup {[endpoint |-> "predict", data |-> d] : d \in LegacyBodies}
    \cup {[endpoint |-> "batch_predict", data |-> d] : d \in BatchBodies}

\* datetime.now(): a monsoon weekday morning, a winter weekend night
Clocks ==
    {[hour |-> 8, month |-> 7, weekday |-> 2],
     [hour |-> 22, month |-> 12, weekday |-> 6]}

SampleTables == {<<1, 1, 1, 1>>, <<1, 2, 3, 1>>, <<3, 2, 1, 2>>}

InitHttp ==
    /\ rng = [seed |-> 0, n |-> 0]
    /\ mt \in SampleTables
    /\ request \in HttpRequests
    /\ result = NoResult
    /\ locals = NoResult
    /\ formatted = NoResult
    /\ earlier = NoResult
    /\ threads = NoThreads
    /\ predictor = None
    /\ response = NoResult

\* init_api, lines 425-428
InitApi ==
    /\ predictor = None
    /\ predictor' = AccidentPredictorInstance
    /\ UNCHANGED <<rng, mt, request, result, locals, formatted, earlier,
                   threads, response>>

Respond(out) ==
    /\ rng' = out.rng
    /\ result' = out.result
    /\ locals' = out.locals
    /\ formatted' = out.formatted
    /\ response' = out.response

PredictComprehensive ==
    /\ response = NoResult
    /\ request.endpoint = "predict_comprehensive"
    /\ Respond(predict_comprehensive(request.data))
    /\ UNCHANGED <<mt, request, earlier, threads, predictor>>

PredictLegacy ==
    /\ response = NoResult
    /\ request.endpoint = "predict"
    /\ \E now \in Clocks : Respond(predict_legacy(request.data, now))
    /\ UNCHANGED <<mt, request, earlier, threads, predictor>>

\* the number of items of the body's locations list, 0 if it has none
ItemCount(data) ==
    IF data.kind = "object" /\ "locations" \in DOMAIN data.fields
    THEN Len(data.fields.locations) ELSE 0

BatchPredict ==
    /\ response = NoResult
    /\ request.endpoint = "batch_predict"
    /\ \E clocks \in [1..ItemCount(request.data) -> Clocks] :
           Respond(api_batch_predict(request.data, clocks))
    /\ UNCHANGED <<mt, request, earlier, threads, predictor>>

NextHttp == InitApi \/ PredictComprehensive \/ PredictLegacy \/ BatchPredict

SpecHttp == InitHttp /\ [][NextHttp]_vars

(***************************************************************************)
(* A sequence of /predict and /batch_predict requests on a running         *)
(* service, one after the other.  `earlier` keeps any one of the requests  *)
(* already answered.                                                       *)
(***************************************************************************)
\* Mumbai itself and the point nearest New Delhi
BatchItemChoices ==
    {<< [num |-> 190760], [num |-> 728777] >>,
     << [num |-> 285000], [num |-> 770000] >>}

BatchRequests ==
    {[endpoint |-> "predict", data |-> JsonObject([lat |-> i[1], lon |-> i[2]])] :
        i \in BatchItemChoices}
    \cup {[endpoint |-> "batch_predict", data |-> JsonObject([locations |-> l])] :
              l \in Lists(BatchItemChoices)}

BatchTables == {<<1, 2, 3, 1>>, <<3, 2, 1, 2>>}

InitBatch ==
    /\ rng = [seed |-> 0, n |-> 0]
    /\ mt \in BatchTables
    /\ request \in BatchRequests
    /\ result = NoResult
    /\ locals = NoResult
    /\ formatted = NoResult
    /\ earlier = NoResult
    /\ threads = NoThreads
    /\ predictor = AccidentPredictorInstance
    /\ response = NoResult

AnsweredRequest == [request |-> request, response |-> response, locals |-> locals]

\* the next request arrives after the last one has been answered
NextHttpRequest ==
    /\ response # NoResult
    /\ \E r \in BatchRequests : request' = r
    /\ earlier' \in {earlier, AnsweredRequest}
    /\ result' = NoResult
    /\ locals' = NoResult
    /\ formatted' = NoResult
    /\ response' = NoResult
    /\ UNCHANGED <<rng, mt, threads, predictor>>

NextBatch == PredictLegacy \/ BatchPredict \/ NextHttpRequest

SpecBatch == InitBatch /\ [][NextBatch]_vars

(***************************************************************************)
(* /predict at every hour and month of the clock, for coordinates at the   *)
(* centroids, between them, at equal distance from two of them and far     *)
(* from all of them; /batch_predict for lists of coordinates.              *)
(***************************************************************************)
Hours == 0..23

Months == 1..12

\* datetime.weekday() of a Friday and of a Saturday
Weekdays == {4, 5}

Timestamps == [hour : Hours, month : Months, weekday : Weekdays]

\* at equal distance from the two nearest centroids: Hyderabad and Pune,
\* Mumbai and Pune, Mumbai and Ahmedabad, Bangalore and Coimbatore
TiedCoordinates ==
    {<<179527, 761717>>, <<187982, 733672>>, <<211003, 733823>>,
     <<121539, 767865>>}

NearestCoordinates ==
    {<<locations[i][1], locations[i][2]>> : i \in 1..Len(locations)}
    \cup TiedCoordinates
    \cup {<<285000, 770000>>, <<150000, 740000>>, <<187981, 733672>>,
          <<187983, 733672>>, <<0, 0>>, <<900000, 1800000>>,
          <<-337000, 1512000>>, <<200000, 760000>>}

LegacyRequests ==
    {[endpoint |-> "predict",
      data |-> JsonObject([lat |-> [num |-> p[1]], lon |-> [num |-> p[2]]])] :
        p \in NearestCoordinates}
    \cup {[endpoint |-> "batch_predict", data |-> JsonObject([locations |-> l])] :
              l \in Lists(BatchItemChoices)}

InitLegacy ==
    /\ rng = [seed |-> 0, n |-> 0]
    /\ mt = <<1, 2, 3, 1>>
    /\ request \in LegacyRequests
    /\ result = NoResult
    /\ locals = NoResult
    /\ formatted = NoResult
    /\ earlier = NoResult
    /\ threads = NoThreads
    /\ predictor = AccidentPredictorInstance
    /\ response = NoResult

\* /predict at any reading of the clock
PredictAtAnyTime ==
    /\ response = NoResult
    /\ request.endpoint = "predict"
    /\ \E now \in Timestamps : Respond(predict_legacy(request.data, now))
    /\ UNCHANGED <<mt, request, earlier, threads, predictor>>

NextLegacy == PredictAtAnyTime \/ BatchPredict

SpecLegacy == InitLegacy /\ [][NextLegacy]_vars

(***************************************************************************)
(* api.py, _determine_area_type (lines 211-230), called as                 *)
(* get_current_location calls it (lines 135-138): on a coordinate and the  *)
(* location that _coordinates_to_location resolves it to.                  *)
(***************************************************************************)
\* urban_centers, lines 214-220, in 1/10000 of a degree
urban_centers ==
    << <<190760, 728777>>, <<287041, 771025>>, <<129716, 775946>>,
       <<130827, 802707>>, <<225726, 883639>> >>

\* (lat - urban_lat) ** 2 + (lon - urban_lon) ** 2
center_distance_squared(lat, lon, i) ==
    AddWide(Square(lat - urban_centers[i][1]), Square(lon - urban_centers[i][2]))

\* 0.5 ** 2 and 1.0 ** 2 in squared 1/10000 degrees, as <<millions, rest>>
HalfDegreeSquared == <<25, 0>>

OneDegreeSquared == <<100, 0>>

\* the loop of lines 223-228 returns at the first centre closer than 1.0
_determine_area_type(lat, lon, location) ==
    LET within == {i \in 1..Len(urban_centers) :
                      LessWide(center_distance_squared(lat, lon, i),
                               OneDegreeSquared)}
    IN  IF within = {} THEN "Rural"
        ELSE IF LessWide(center_distance_squared(lat, lon,
                             CHOOSE i \in within : \A j \in within : i <= j),
                         HalfDegreeSquared)
        THEN "Urban"
        ELSE "Suburban"

\* each centroid, and points north of it by up to 1.2 degrees
AreaOffsets == {0, 3000, 4999, 5000, 7000, 9999, 10000, 12000}

AreaCoordinates ==
    {<<locations[i][1] + d, locations[i][2]>> :
        i \in 1..Len(locations), d \in AreaOffsets}

InitArea ==
    /\ rng = [seed |-> 0, n |-> 0]
    /\ mt = <<1, 2, 3, 1>>
    /\ request \in {[endpoint |-> "get_location", lat |-> p[1], lon |-> p[2]] :
                       p \in AreaCoordinates}
    /\ result = NoResult
    /\ locals = NoResult
    /\ formatted = NoResult
    /\ earlier = NoResult
    /\ threads = NoThreads
    /\ predictor = AccidentPredictorInstance
    /\ response = NoResult

\* lines 135-138: location, then area_type
area_of(lat, lon, location) ==
    [lat |-> lat, lon |-> lon, location |-> location,
     area_type |-> _determine_area_type(lat, lon, location)]

DetermineAreaType ==
    /\ locals = NoResult
    /\ request.endpoint = "get_location"
    /\ locals' = area_of(request.lat, request.lon,
                         _coordinates_to_location(request.lat, request.lon))
    /\ UNCHANGED <<rng, mt, request, result, formatted, earlier, threads,
                   predictor, response>>

NextArea == DetermineAreaType

SpecArea == InitArea /\ [][NextArea]_vars

(***************************************************************************)
(* The service over time: the module is imported with predictor = None     *)
(* (api.py line 423), create_app calls init_api once (app.py line 55), and *)
(* requests to /predict_comprehensive, /predict, /batch_predict and        *)
(* /health are answered one after the other, before and after init_api.    *)
(***************************************************************************)
\* health_check always reports 200 healthy
health_check_always_healthy ==
    NotCalled @@ [rng |-> rng,
        response |-> [status |-> 200,
                      body |-> [status |-> "healthy", predictor_loaded |-> TRUE,
                                version |-> "2.1.3"]]]

\* health_check, lines 616-636; the timestamp of the body is left out
health_check ==
    LET is_healthy == predictor # None
    IN  NotCalled @@ [rng |-> rng,
            response |-> [status |-> IF is_healthy THEN 200 ELSE 503,
                          body |-> [status |-> IF is_healthy THEN "healthy"
                                               ELSE "unhealthy",
                                    predictor_loaded |-> is_healthy,
                                    version |-> "2.1.3"]]]

\* a body that scores, one the scorer rejects, one that does not parse and
\* no body; coordinates that resolve and a latitude that is not a number;
\* a list of one coordinate pair and a body without locations
ServiceRequests ==
    {[endpoint |-> "predict_comprehensive", data |-> d] :
        d \in {JsonNone, JsonObject(TestBody),
               JsonObject([TestBody EXCEPT !.road_surface = "Oily"]),
               JsonObject([TestBody EXCEPT !.driver_age = [str |-> "fast"]])}}
    \cup {[endpoint |-> "predict", data |-> d] :
        d \in {JsonObject([lat |-> [num |-> 190760], lon |-> [num |-> 728777]]),
               JsonObject([lat |-> [str |-> "north"], lon |-> [num |-> 770000]])}}
    \cup {[endpoint |-> "batch_predict", data |-> d] :
        d \in {JsonObject([locations |->
                              << << [num |-> 285000], [num |-> 770000] >> >>]),
               JsonObject(EmptyObject)}}
    \cup {[endpoint |-> "health", data |-> JsonNone]}

InitService ==
    /\ rng = [seed |-> 0, n |-> 0]
    /\ mt = <<1, 2, 3, 1>>
    /\ request \in ServiceRequests
    /\ result = NoResult
    /\ locals = NoResult
    /\ formatted = NoResult
    /\ earlier = NoResult
    /\ threads = NoThreads
    /\ predictor = None
    /\ response = NoResult

HealthCheck ==
    /\ response = NoResult
    /\ request.endpoint = "health"
    /\ Respond(health_check)
    /\ UNCHANGED <<mt, request, earlier, threads, predictor>>

\* the next request arrives after the last one has been answered
NextServiceRequest ==
    /\ response # NoResult
    /\ \E r \in ServiceRequests : request' = r
    /\ earlier' \in {earlier, AnsweredRequest}
    /\ result' = NoResult
    /\ locals' = NoResult
    /\ formatted' = NoResult
    /\ response' = NoResult
    /\ UNCHANGED <<rng, mt, threads, predictor>>

NextService ==
    \/ InitApi
    \/ PredictComprehensive
    \/ PredictLegacy
    \/ BatchPredict
    \/ HealthCheck
    \/ NextServiceRequest

SpecService == InitService /\ [][NextService]_vars

(***************************************************************************)
(* The enumerated domains of the condition fields and the valid inputs     *)
(***************************************************************************)
Domains ==
    [vehicle_type |-> {"Car", "Bike", "Truck", "Bus", "Auto-rickshaw", "Bicycle"},
     license_valid |-> {"yes", "no"},
     seatbelt |-> {"yes", "no"},
     weather |-> {"Clear", "Rainy", "Foggy", "Snowy", "Stormy", "Hazy"},
     road_surface |-> {"Dry", "Wet", "Icy", "Muddy"},
     visibility |-> {"high", "medium", "low"},
     light_condition |-> {"Daylight", "Night_with_lights", "Night_without_lights"},
     road_type |-> {"Highway", "City_Road", "Rural_Road"},
     road_design |-> {"Straight", "Curved", "Junction", "Roundabout"},
     traffic_volume |-> {"Low", "Medium", "High"},
     time_of_day |-> {"Morning", "Afternoon", "Evening", "Night"},
     area_type |-> {"Urban", "Suburban", "Rural"},
     overtaking |-> {"yes", "no"},
     alcohol |-> {"yes", "no"},
     phone_usage |-> {"yes", "no"}]

InDomain(c) == \A f \in DOMAIN Domains : c[f] \in Domains[f]

NonNegative(c) ==
    /\ c.driver_age >= 0 /\ c.experience >= 0 /\ c.speed_limit >= 0
    /\ c.current_speed >= 0 /\ c.accident_history >= 0

ValidConditions(c) == InDomain(c) /\ NonNegative(c)

Scored == result # NoResult

Succeeded == Scored /\ result.success

(***************************************************************************)
(* C1: for every location and every in-domain conditions value the three   *)
(* reported probabilities (low, medium, high) sum to 1.0 within 1e-6.      *)
(* Reported probabilities are in thousandths, so the sum must be 1000.     *)
(***************************************************************************)
C1_ReportedProbabilitiesSumToOne ==
    (Succeeded /\ InDomain(request.conditions))
        => result.probabilities.low + result.probabilities.medium
               + result.probabilities.high = 1000

(***************************************************************************)
(* C2: for every location and every valid conditions value, the reported   *)
(* risk_score is in [5.0, 95.0] and the reported confidence in [0.6, 0.95] *)
(* for every jitter factor in [0.95, 1.05].                                *)
(***************************************************************************)
C2_ScoreAndConfidenceInRange ==
    (Succeeded /\ ValidConditions(request.conditions))
        => /\ 50 <= result.risk_score /\ result.risk_score <= 950
           /\ 600 <= result.confidence /\ result.confidence <= 950
           /\ locals.random_factor \in 95..105

\* a valid request whose jittered risk exceeds 0.95 before the cap, at the
\* largest factor
C2_Witness ==
    /\ Succeeded /\ ValidConditions(request.conditions)
    /\ locals.random_factor = 105
    /\ locals.normalized_risk * locals.random_factor > 760000
    /\ result.risk_score = 950

(***************************************************************************)
(* C6: severity is Low exactly when final < 0.30, Medium exactly when      *)
(* 0.30 <= final < 0.60 and High exactly when final >= 0.60, final being   *)
(* the post-jitter, pre-rounding risk.                                     *)
(***************************************************************************)
C6_SeverityByThreshold ==
    Succeeded =>
        /\ (result.predicted_severity = "Low Risk") <=> (locals.final_risk < 240000)
        /\ (result.predicted_severity = "Medium Risk")
               <=> (240000 <= locals.final_risk /\ locals.final_risk < 480000)
        /\ (result.predicted_severity = "High Risk") <=> (locals.final_risk >= 480000)
        /\ result.predicted_severity \in {"Low Risk", "Medium Risk", "High Risk"}

\* a final risk exactly on the 0.60 threshold, which is High
C6_Witness ==
    /\ Succeeded
    /\ locals.final_risk = 480000
    /\ result.predicted_severity = "High Risk"

(***************************************************************************)
(* C7: in every successful result color, severity_code and severity label  *)
(* agree one-to-one (Low/0/#28a745, Medium/1/#ffc107, High/2/#dc3545),     *)
(* also after predict_comprehensive_risk has reformatted the result.       *)
(***************************************************************************)
SeverityTriples ==
    {<<"Low Risk", 0, "#28a745">>, <<"Medium Risk", 1, "#ffc107">>,
     <<"High Risk", 2, "#dc3545">>}

C7_ColorCodeLabelAgree ==
    /\ Succeeded =>
           <<result.predicted_severity, result.severity_code, result.color>>
               \in SeverityTriples
    /\ (formatted # NoResult /\ formatted.success) =>
           /\ <<formatted.predicted_severity, formatted.severity_code,
                formatted.color>> \in SeverityTriples
           /\ formatted.risk_level = formatted.predicted_severity
           /\ formatted.debug_info.prediction_raw = formatted.severity_code

C7_Witness ==
    /\ formatted # NoResult /\ formatted.success
    /\ formatted.severity_code = 0 /\ formatted.color = "#28a745"

(***************************************************************************)
(* C10: the recommendations list has at most 6 entries and equals the      *)
(* first 6 entries (or all, if fewer) of the full list in checklist order: *)
(* weather hazard, speeding, night driving, two-wheeler gear, seatbelt,    *)
(* alcohol, phone usage, severity-based closing remarks.                   *)
(***************************************************************************)
Checklist(c, code) ==
    << <<c.weather \in {"Rainy", "Foggy", "Snowy", "Stormy"},
         <<"Reduce speed due to adverse weather conditions",
           "Increase following distance">> >>,
       <<c.current_speed > c.speed_limit,
         <<"Reduce speed to within " \o ToString(c.speed_limit) \o " km/h limit">> >>,
       <<c.light_condition \in {"Night_with_lights", "Night_without_lights"},
         <<"Use headlights and drive cautiously at night">> >>,
       <<c.vehicle_type = "Bike", <<"Wear helmet and protective gear">> >>,
       <<c.seatbelt = "no", <<"Always wear seatbelt for safety">> >>,
       <<c.alcohol = "yes", <<"Never drive under influence of alcohol">> >>,
       <<c.phone_usage = "yes", <<"Avoid phone usage while driving">> >>,
       <<code = 2, <<"Consider postponing travel if possible",
                     "Extra caution required - high risk conditions">> >>,
       <<code = 1, <<"Drive with increased attention">> >> >>

RECURSIVE Collect(_, _)
Collect(list, i) ==
    IF i > Len(list) THEN <<>>
    ELSE (IF list[i][1] THEN list[i][2] ELSE <<>>) \o Collect(list, i + 1)

C10_RecommendationsAreFirstSix ==
    Succeeded =>
        LET full == Collect(Checklist(request.conditions, result.severity_code), 1)
        IN  /\ Len(result.recommendations) <= 6
            /\ Len(result.recommendations) = Min(Len(full), 6)
            /\ \A i \in 1..Len(result.recommendations) :
                   result.recommendations[i] = full[i]

\* more than 6 entries match, so the list is cut
C10_Witness ==
    /\ Succeeded
    /\ Len(Collect(Checklist(request.conditions, result.severity_code), 1)) > 6
    /\ Len(result.recommendations) = 6

(***************************************************************************)
(* C8: the speed contribution to total risk is 0 when current_speed <=     *)
(* speed_limit and min((current_speed - speed_limit) * 0.01, 1.0)          *)
(* otherwise; 0 at current_speed = speed_limit and exactly 1.0 for every   *)
(* excess of 100 km/h or more.  Contributions are in hundredths.           *)
(***************************************************************************)
C8_SpeedContribution ==
    Succeeded =>
        LET cs == request.conditions.current_speed
            sl == request.conditions.speed_limit
            claimed == IF cs <= sl THEN 0
                       ELSE IF cs - sl >= 100 THEN 100 ELSE cs - sl
        IN  /\ locals.speed_risk = claimed
            /\ locals.total_risk
                   = total_risk_of(request.location,
                                   [request.conditions EXCEPT !.current_speed = 0,
                                                              !.speed_limit = 0])
                     + claimed

\* speed_limit + 150 saturates at 1.0
C8_Witness ==
    /\ Succeeded
    /\ request.conditions.current_speed = request.conditions.speed_limit + 150
    /\ locals.speed_risk = 100

(***************************************************************************)
(* C3: two calls with identical (location, weather, time_of_day,           *)
(* road_type) yield identical risk_score, severity, probabilities and      *)
(* confidence even if the other condition fields differ.                   *)
(***************************************************************************)
SeedFields(r) ==
    <<r.location, r.conditions.weather, r.conditions.time_of_day,
      r.conditions.road_type>>

Output(res) ==
    <<res.risk_score, res.predicted_severity, res.severity_code,
      res.probabilities, res.confidence>>

BothSucceeded == Succeeded /\ earlier # NoResult /\ earlier.result.success

C3_SameSeedFieldsSameOutput ==
    (BothSucceeded /\ SeedFields(earlier.request) = SeedFields(request))
        => Output(earlier.result) = Output(result)

(***************************************************************************)
(* C3 as amended: two calls with identical (location, weather,             *)
(* time_of_day, road_type) use the identical seed and jitter factor even   *)
(* if the other condition fields differ; their risk_score, severity,       *)
(* probabilities and confidence are identical whenever their total risk    *)
(* is also the same.                                                       *)
(***************************************************************************)
C3_SameSeedFieldsSameJitter ==
    (BothSucceeded /\ SeedFields(earlier.request) = SeedFields(request))
        => /\ earlier.locals.seed = locals.seed
           /\ earlier.locals.random_factor = locals.random_factor
           /\ (earlier.locals.total_risk = locals.total_risk
                   => Output(earlier.result) = Output(result))

\* two calls that differ in vehicle_type and accident_history, with the
\* same seed fields and the same total risk
C3_Witness ==
    /\ BothSucceeded
    /\ SeedFields(earlier.request) = SeedFields(request)
    /\ earlier.request.conditions.vehicle_type # request.conditions.vehicle_type
    /\ earlier.locals.total_risk = locals.total_risk
    /\ Output(earlier.result) = Output(result)

(***************************************************************************)
(* C5: two sequential calls with the same location and the same full       *)
(* conditions return the same risk_score, severity, probabilities,         *)
(* confidence, risk_factors, recommendations and color, whatever calls     *)
(* were made before or between them.                                       *)
(***************************************************************************)
C5_SameInputSameResult ==
    (Scored /\ earlier # NoResult /\ earlier.request = request)
        => /\ earlier.result.success = result.success
           /\ result.success =>
                  /\ Output(earlier.result) = Output(result)
                  /\ earlier.result.risk_factors = result.risk_factors
                  /\ earlier.result.recommendations = result.recommendations
                  /\ earlier.result.color = result.color

C5_Witness ==
    /\ Succeeded /\ earlier # NoResult
    /\ earlier.request = request
    /\ earlier.result = result

(***************************************************************************)
(* C9: with location and every other condition field fixed, increasing     *)
(* accident_history never decreases the pre-jitter normalized risk and     *)
(* never decreases the reported risk_score.                                *)
(***************************************************************************)
SameButHistory(r1, r2) ==
    /\ r1.location = r2.location
    /\ [r1.conditions EXCEPT !.accident_history = 0]
           = [r2.conditions EXCEPT !.accident_history = 0]

C9_HistoryMonotone ==
    (BothSucceeded /\ SameButHistory(earlier.request, request)
     /\ earlier.request.conditions.accident_history
            <= request.conditions.accident_history)
        => /\ earlier.locals.normalized_risk <= locals.normalized_risk
           /\ earlier.result.risk_score <= result.risk_score

\* a strictly larger history with a strictly larger score
C9_Witness ==
    /\ BothSucceeded /\ SameButHistory(earlier.request, request)
    /\ earlier.request.conditions.accident_history
           < request.conditions.accident_history
    /\ earlier.result.risk_score < result.risk_score

(***************************************************************************)
(* C4: when two predict_accident_risk calls run concurrently on different  *)
(* threads, under every interleaving of their seed and draw steps each     *)
(* call returns exactly the result it returns when run alone.              *)
(***************************************************************************)
C4_ConcurrentCallsAsAlone ==
    \A t \in Threads :
        threads[t].pc = "done"
            => threads[t].result
                   = predict_accident_risk(threads[t].request.location,
                                           threads[t].request.conditions).result

(***************************************************************************)
(* C11: the alcohol field never changes risk_factors: the risk_factors     *)
(* computed with alcohol=yes equal those computed with alcohol=no and no   *)
(* entry names alcohol, while the recommendations for alcohol=yes include  *)
(* the alcohol warning when it falls within the first 6 entries.           *)
(***************************************************************************)
AlcoholWarning == "Never drive under influence of alcohol"

NamesAlcohol(entry) == Contains(entry, "lcohol")

\* the same request with the alcohol field flipped
AlcoholFlipped(r) ==
    [r EXCEPT !.conditions.alcohol = IF @ = "yes" THEN "no" ELSE "yes"]

\* the recommendations that precede the alcohol warning in the full list
BeforeAlcoholWarning(c) ==
    (IF c.weather \in {"Rainy", "Foggy", "Snowy", "Stormy"} THEN 2 ELSE 0)
    + (IF c.current_speed > c.speed_limit THEN 1 ELSE 0)
    + (IF c.light_condition \in {"Night_with_lights", "Night_without_lights"}
       THEN 1 ELSE 0)
    + (IF c.vehicle_type = "Bike" THEN 1 ELSE 0)
    + (IF c.seatbelt = "no" THEN 1 ELSE 0)

C11_AlcoholNotARiskFactor ==
    (Succeeded /\ request.conditions.alcohol \in {"yes", "no"}) =>
        LET flipped == AlcoholFlipped(request)
            other   == predict_accident_risk(flipped.location, flipped.conditions)
        IN  /\ other.result.success
            /\ other.result.risk_factors = result.risk_factors
            /\ \A i \in 1..Len(result.risk_factors) :
                   ~NamesAlcohol(result.risk_factors[i])
            /\ (request.conditions.alcohol = "yes"
                /\ BeforeAlcoholWarning(request.conditions) < 6)
                   => \E i \in 1..Len(result.recommendations) :
                          result.recommendations[i] = AlcoholWarning

\* alcohol=yes, the warning is among the recommendations and the risk
\* factors, though not empty, say nothing of it
C11_Witness ==
    /\ Succeeded
    /\ request.conditions.alcohol = "yes"
    /\ \E i \in 1..Len(result.recommendations) :
           result.recommendations[i] = AlcoholWarning
    /\ Len(result.risk_factors) > 0
    /\ \A i \in 1..Len(result.risk_factors) : ~NamesAlcohol(result.risk_factors[i])

(***************************************************************************)
(* C12: a vehicle_type or weather value outside the scorer's weight table  *)
(* (including the listed domain values Bicycle and Hazy) does not fail the *)
(* call: it contributes exactly 0.3 (30 hundredths) to total risk and the  *)
(* call returns a successful assessment.                                   *)
(***************************************************************************)
UnknownVehicle(c) == c.vehicle_type \notin DOMAIN W_vehicle_type

UnknownWeather(c) == c.weather \notin DOMAIN W_weather

\* total risk of the same request with Car and Clear, less their weights
TotalWithoutVehicleAndWeather(r) ==
    total_risk_of(r.location, [r.conditions EXCEPT !.vehicle_type = "Car",
                                                   !.weather = "Clear"])
    - W_vehicle_type["Car"] - W_weather["Clear"]

C12_UnknownVehicleOrWeatherCountsThreeTenths ==
    (Scored /\ ~RaisesKeyError(request.conditions)) =>
        /\ UnknownVehicle(request.conditions) =>
               /\ result.success
               /\ locals.total_risk
                      = TotalWithoutVehicleAndWeather(request) + 30
                        + (IF UnknownWeather(request.conditions) THEN 30
                           ELSE W_weather[request.conditions.weather])
        /\ UnknownWeather(request.conditions) =>
               /\ result.success
               /\ locals.total_risk
                      = TotalWithoutVehicleAndWeather(request) + 30
                        + (IF UnknownVehicle(request.conditions) THEN 30
                           ELSE W_vehicle_type[request.conditions.vehicle_type])

\* a successful assessment for a Bicycle
C12_Witness ==
    /\ Succeeded
    /\ request.conditions.vehicle_type = "Bicycle"
    /\ locals.total_risk = TotalWithoutVehicleAndWeather(request) + 30 + 10
    /\ result.risk_score >= 50

(***************************************************************************)
(* C13: if any of license_valid, seatbelt, road_surface, visibility,        *)
(* light_condition, road_type, road_design, traffic_volume, time_of_day,   *)
(* area_type, overtaking, alcohol or phone_usage holds a value outside its *)
(* enumerated domain, the scorer fails: it returns an error outcome        *)
(* (success=false with a message) and no risk assessment fields, for each  *)
(* such field independently of the values of the others.                   *)
(***************************************************************************)
OutsideFields(c) == {f \in ExactLookupFields : c[f] \notin Domains[f]}

AssessmentFields ==
    {"risk_score", "predicted_severity", "severity_code", "probabilities",
     "confidence", "risk_factors", "recommendations", "color"}

IsErrorOutcome(r) ==
    /\ r.success = FALSE
    /\ "error" \in DOMAIN r /\ r.error # ""
    /\ DOMAIN r \cap AssessmentFields = {}

C13_OutsideDomainFails ==
    (Scored /\ OutsideFields(request.conditions) # {}) =>
        /\ IsErrorOutcome(result)
        /\ formatted # NoResult => IsErrorOutcome(formatted)

\* exactly one field is outside its domain (an Oily road surface), every
\* other field is valid, and the call through the wrapper fails
C13_Witness ==
    /\ Scored /\ formatted # NoResult
    /\ OutsideFields(request.conditions) = {"road_surface"}
    /\ request.conditions.vehicle_type = "Car"
    /\ NonNegative(request.conditions)
    /\ IsErrorOutcome(result) /\ IsErrorOutcome(formatted)

(***************************************************************************)
(* C14: the scorer fails with an error outcome, and returns no risk        *)
(* assessment, whenever driver_age, experience, speed_limit, current_speed *)
(* or accident_history is negative.                                        *)
(***************************************************************************)
NegativeFields(c) == {f \in NumericFields : c[f] < 0}

C14_NegativeNumberFails ==
    (Scored /\ NegativeFields(request.conditions) # {}) => IsErrorOutcome(result)

(***************************************************************************)
(* C15: at the HTTP layer, a predict_comprehensive request that the scorer *)
(* rejects for an out-of-domain condition value, or whose numeric field    *)
(* cannot be parsed as an integer, is answered with a client-error status  *)
(* (4xx), never a server-error status (5xx).                               *)
(***************************************************************************)
Answered == response # NoResult

\* the scorer was reached and returned its error outcome
ScorerRejected == result # NoResult /\ ~result.success

\* the handler was past its predictor and body tests and an int() raised
IntParseFailed ==
    /\ request.data.kind = "object"
    /\ DOMAIN request.data.fields # {}
    /\ Unparsable(request.data.fields) # {}
    /\ response.body.error # "Prediction service not available"

C15_RejectedRequestIsClientError ==
    (Answered /\ request.endpoint = "predict_comprehensive"
     /\ (ScorerRejected \/ IntParseFailed))
        => response.status \in 400..499

(***************************************************************************)
(* C16: every response of the prediction endpoints is either a complete    *)
(* assessment with success=true (risk_score, severity, probabilities,      *)
(* confidence, risk_factors, recommendations, color all present) or a      *)
(* failure object with success=false and an error message; no scoring      *)
(* failure yields a response that has success=true with fields missing,    *)
(* or a failure object without success=false.                              *)
(***************************************************************************)
IsCompleteAssessment(body) ==
    /\ "success" \in DOMAIN body /\ body.success = TRUE
    /\ AssessmentFields \subseteq DOMAIN body

IsFailureObject(body) ==
    /\ "success" \in DOMAIN body /\ body.success = FALSE
    /\ "error" \in DOMAIN body /\ body.error # ""
    /\ DOMAIN body \cap AssessmentFields = {}

C16_AssessmentOrFailure ==
    Answered => IsCompleteAssessment(response.body) \/ IsFailureObject(response.body)

(***************************************************************************)
(* C16 as amended: every response of predict_comprehensive and predict is  *)
(* either a complete assessment with success=true or a failure object with *)
(* success=false and an error message; a batch_predict response is either  *)
(* such a failure object or an envelope with success=true, a results list  *)
(* whose every entry is a complete assessment or a failure object, and     *)
(* count equal to the length of that list.  A response is a complete       *)
(* assessment or envelope exactly when its status is 200, and a scoring    *)
(* failure always yields a failure object.                                 *)
(***************************************************************************)
IsBatchEnvelope(body) ==
    /\ "success" \in DOMAIN body /\ body.success = TRUE
    /\ DOMAIN body = {"success", "results", "count"}
    /\ body.count = Len(body.results)
    /\ \A i \in 1..Len(body.results) :
           IsCompleteAssessment(body.results[i]) \/ IsFailureObject(body.results[i])

C16_AssessmentEnvelopeOrFailure ==
    Answered =>
        /\ request.endpoint \in {"predict_comprehensive", "predict"} =>
               \/ response.status = 200 /\ IsCompleteAssessment(response.body)
               \/ response.status # 200 /\ IsFailureObject(response.body)
        /\ request.endpoint = "batch_predict" =>
               \/ response.status = 200 /\ IsBatchEnvelope(response.body)
               \/ response.status # 200 /\ IsFailureObject(response.body)
        /\ ScorerRejected => IsFailureObject(response.body)

\* the scorer rejects the request and the response is the failure object
C16_Witness ==
    /\ Answered /\ ScorerRejected
    /\ response.status = 500
    /\ IsFailureObject(response.body)
    /\ response.body.error = "Prediction calculation failed"

(***************************************************************************)
(* C17: for location "Mumbai, Maharashtra" with weather Clear, speed_limit *)
(* 60, current_speed 55, experience 5, accident_history 1, driver_age 28   *)
(* or 30 and every other field at its default (the input of                *)
(* test_prediction), the severity is Low or Medium for every jitter factor *)
(* in [0.95, 1.05]; it is never High.                                      *)
(***************************************************************************)
IsTestPredictionInput(r) ==
    /\ r.location = "Mumbai, Maharashtra"
    /\ \/ r.conditions = test_conditions
       \/ r.conditions = [test_conditions EXCEPT !.driver_age = 30]

\* the jitter factors of [0.95, 1.05], in hundredths
JitterFactors == 95..105

C17_TestPredictionNeverHigh ==
    (Succeeded /\ IsTestPredictionInput(request)) =>
        /\ result.predicted_severity \in {"Low Risk", "Medium Risk"}
        /\ locals.random_factor \in JitterFactors
        /\ \A f \in JitterFactors :
               jittered(request.location, request.conditions, f).sev.severity
                   \in {"Low", "Medium"}

\* test_prediction's input scored with the largest jitter factor
C17_Witness ==
    /\ Succeeded /\ formatted # NoResult
    /\ IsTestPredictionInput(request)
    /\ request.conditions.driver_age = 30
    /\ locals.random_factor = 105
    /\ formatted.predicted_severity = "Medium Risk"

(***************************************************************************)
(* C18: the probability triple is biased toward the chosen severity        *)
(* bucket: for every reachable final risk value and every draw of the      *)
(* uniform variables, the probability of the returned severity's own       *)
(* bucket is greater than or equal to each of the other two probabilities. *)
(***************************************************************************)
OwnBucket(code) == IF code = 0 THEN "low" ELSE IF code = 1 THEN "medium" ELSE "high"

OwnIsLargest(code, p) ==
    /\ p[OwnBucket(code)] >= p.low
    /\ p[OwnBucket(code)] >= p.medium
    /\ p[OwnBucket(code)] >= p.high

C18_OwnBucketIsLargest ==
    Succeeded =>
        /\ OwnIsLargest(result.severity_code, locals.probs)
        /\ OwnIsLargest(result.severity_code, result.probabilities)
        /\ \A u_own \in own_range(result.severity_code)[1]
                           ..own_range(result.severity_code)[2] :
           \A u_split \in split_range(result.severity_code)[1]
                             ..split_range(result.severity_code)[2] :
               OwnIsLargest(result.severity_code,
                            probabilities_of(result.severity_code,
                                             locals.final_risk, u_own, u_split))

\* the narrowest case: the least final risk (0.0475) with the least own
\* draw (0.4) and the largest split (0.8); low 0.4475 against medium 0.442
C18_Witness ==
    /\ Succeeded
    /\ result.severity_code = 0
    /\ locals.final_risk = 38000
    /\ locals.draws[2] = 40 /\ locals.draws[3] = 80
    /\ locals.probs.low = 35800000 /\ locals.probs.medium = 35360000

(***************************************************************************)
(* C19: batch_predict returns exactly one result per input coordinate      *)
(* pair, in input order, and the result for each pair equals what          *)
(* predict_risk returns for that pair alone at the same time; permuting    *)
(* the input list permutes the results and changes none of them.           *)
(***************************************************************************)
BatchAnswered(a) ==
    /\ a # NoResult /\ a.response # NoResult
    /\ a.request.endpoint = "batch_predict"
    /\ a.response.status = 200

AloneAnswered(a) ==
    /\ a # NoResult /\ a.response # NoResult
    /\ a.request.endpoint = "predict"
    /\ a.response.status = 200

BatchItems(a) == a.request.data.fields.locations

BatchResults(a) == a.response.body.results

AloneItem(a) == <<a.request.data.fields.lat, a.request.data.fields.lon>>

Orderings(n) == {p \in [1..n -> 1..n] : \A i, j \in 1..n : p[i] = p[j] => i = j}

\* batch b is batch a with items (and their clock readings) permuted by p
PermutedBy(a, b, p) ==
    \A i \in 1..Len(BatchItems(b)) :
        /\ BatchItems(b)[i] = BatchItems(a)[p[i]]
        /\ b.locals.clocks[i] = a.locals.clocks[p[i]]

C19_BatchIsRepeatedPredictRisk ==
    BatchAnswered(AnsweredRequest) =>
        /\ Len(BatchResults(AnsweredRequest)) = Len(BatchItems(AnsweredRequest))
        /\ response.body.count = Len(BatchItems(AnsweredRequest))
        /\ AloneAnswered(earlier) =>
               \A i \in 1..Len(BatchItems(AnsweredRequest)) :
                   (/\ BatchItems(AnsweredRequest)[i] = AloneItem(earlier)
                    /\ locals.clocks[i] = earlier.locals.now)
                       => BatchResults(AnsweredRequest)[i] = earlier.response.body
        /\ (BatchAnswered(earlier)
            /\ Len(BatchItems(earlier)) = Len(BatchItems(AnsweredRequest))) =>
               \A p \in Orderings(Len(BatchItems(earlier))) :
                   PermutedBy(earlier, AnsweredRequest, p) =>
                       \A i \in 1..Len(BatchItems(earlier)) :
                           BatchResults(AnsweredRequest)[i]
                               = BatchResults(earlier)[p[i]]

\* a batch of two different pairs answered after the same two pairs in the
\* other order, with different results for the two
C19_Witness ==
    /\ BatchAnswered(AnsweredRequest) /\ BatchAnswered(earlier)
    /\ Len(BatchItems(earlier)) = 2 /\ Len(BatchItems(AnsweredRequest)) = 2
    /\ BatchItems(earlier)[1] # BatchItems(earlier)[2]
    /\ PermutedBy(earlier, AnsweredRequest, <<2, 1>>)
    /\ BatchResults(AnsweredRequest)[1] = BatchResults(earlier)[2]
    /\ BatchResults(AnsweredRequest)[2] = BatchResults(earlier)[1]
    /\ BatchResults(earlier)[1].risk_score # BatchResults(earlier)[2].risk_score

(***************************************************************************)
(* C20: the base risk of a location is the table value of the first key of *)
(* the city table, in table order, that is a substring of the lower-cased  *)
(* location; otherwise 0.5 if the lower-cased location contains an urban   *)
(* keyword; otherwise 0.4 if it contains a rural keyword; otherwise 0.45.  *)
(* The result does not depend on the letter case of the location, and an   *)
(* urban keyword wins over a rural keyword when both occur.                *)
(***************************************************************************)
UpperChar(c) ==
    IF \E i \in 1..26 : SubSeq(LowerAlphabet, i, i) = c
    THEN LET i == CHOOSE j \in 1..26 : SubSeq(LowerAlphabet, j, j) = c
         IN  SubSeq(UpperAlphabet, i, i)
    ELSE c

RECURSIVE upper(_)
upper(s) ==
    IF Len(s) = 0 THEN ""
    ELSE UpperChar(SubSeq(s, 1, 1)) \o upper(SubSeq(s, 2, Len(s)))

\* the index of the first table key, from index i on, contained in text
RECURSIVE FirstKeyIn(_, _)
FirstKeyIn(text, i) ==
    IF i > Len(location_risk_base) THEN 0
    ELSE IF Contains(text, location_risk_base[i][1]) THEN i
    ELSE FirstKeyIn(text, i + 1)

HasUrbanKeyword(text) ==
    \E k \in {"city", "metro", "downtown", "central", "commercial"} :
        Contains(text, k)

HasRuralKeyword(text) ==
    \E k \in {"village", "countryside", "rural", "outskirts"} : Contains(text, k)

ClaimedLocationRisk(location) ==
    IF FirstKeyIn(lower(location), 1) # 0
    THEN location_risk_base[FirstKeyIn(lower(location), 1)][2]
    ELSE IF HasUrbanKeyword(lower(location)) THEN 50
    ELSE IF HasRuralKeyword(lower(location)) THEN 40
    ELSE 45

\* the claimed value and the values of the case variants, per location
LocationCases ==
    [l \in LocationSamples |->
        [claimed  |-> ClaimedLocationRisk(l),
         upper    |-> _get_location_risk(upper(l)),
         lower    |-> _get_location_risk(lower(l)),
         keywords |-> /\ HasUrbanKeyword(lower(l))
                      /\ HasRuralKeyword(lower(l))
                      /\ FirstKeyIn(lower(l), 1) = 0]]

C20_LocationBaseRisk ==
    (Succeeded /\ request.location \in LocationSamples) =>
        /\ locals.location_risk = LocationCases[request.location].claimed
        /\ locals.location_risk = LocationCases[request.location].upper
        /\ locals.location_risk = LocationCases[request.location].lower
        /\ LocationCases[request.location].keywords => locals.location_risk = 50

\* a rural keyword ahead of an urban one, no city: the urban value
C20_Witness ==
    /\ Succeeded
    /\ request.location = "Village near City"
    /\ locals.location_risk = 50
    /\ locals.total_risk = 360

(***************************************************************************)
(* C21: for every in-domain input, total risk is the location base risk    *)
(* plus exactly one contribution per condition field (vehicle, age bucket, *)
(* experience bucket, license, seatbelt, weather, road surface,            *)
(* visibility, light, road type, road design, traffic, speed, time of day, *)
(* weekday/weekend, area type, overtaking, alcohol, phone usage,           *)
(* accident_history * 0.1); normalized = clamp(total / 8.0, 0.05, 0.95);   *)
(* final = min(normalized * factor, 0.95) with factor in [0.95, 1.05]; and *)
(* risk_score = round(final * 100, 1).                                     *)
(***************************************************************************)
\* the contribution of each field, in hundredths, in the order of the claim
Contributions(c) ==
    << IF c.vehicle_type \in DOMAIN W_vehicle_type
       THEN W_vehicle_type[c.vehicle_type] ELSE 30,
       IF c.driver_age < 25 THEN 60 ELSE IF c.driver_age <= 40 THEN 20
       ELSE IF c.driver_age <= 60 THEN 10 ELSE 40,
       IF c.experience < 2 THEN 70 ELSE IF c.experience <= 5 THEN 40
       ELSE IF c.experience <= 10 THEN 20 ELSE 10,
       W_license_valid[c.license_valid],
       W_seatbelt[c.seatbelt],
       IF c.weather \in DOMAIN W_weather THEN W_weather[c.weather] ELSE 30,
       W_road_surface[c.road_surface],
       W_visibility[c.visibility],
       W_light_condition[c.light_condition],
       W_road_type[c.road_type],
       W_road_design[c.road_design],
       W_traffic_volume[c.traffic_volume],
       IF c.current_speed <= c.speed_limit THEN 0
       ELSE IF c.current_speed - c.speed_limit > 100 THEN 100
       ELSE c.current_speed - c.speed_limit,
       W_time_of_day[c.time_of_day],
       IF c.is_weekend THEN 50 ELSE 30,
       W_area_type[c.area_type],
       W_overtaking[c.overtaking],
       W_alcohol[c.alcohol],
       W_phone_usage[c.phone_usage],
       10 * c.accident_history >>

SumOfTwenty(q) ==
    q[1] + q[2] + q[3] + q[4] + q[5] + q[6] + q[7] + q[8] + q[9] + q[10]
    + q[11] + q[12] + q[13] + q[14] + q[15] + q[16] + q[17] + q[18] + q[19]
    + q[20]

\* clamp(total / 8.0, 0.05, 0.95) in 1/8000, total in hundredths
ClaimedNormalized(total) ==
    IF 10 * total < 400 THEN 400 ELSE IF 10 * total > 7600 THEN 7600
    ELSE 10 * total

C21_TotalNormalizedFinalScore ==
    (Succeeded /\ InDomain(request.conditions)) =>
        /\ Len(Contributions(request.conditions)) = 20
        /\ locals.total_risk = locals.location_risk
                                + SumOfTwenty(Contributions(request.conditions))
        /\ locals.normalized_risk = ClaimedNormalized(locals.total_risk)
        /\ locals.random_factor \in 95..105
        /\ locals.final_risk =
              (IF locals.normalized_risk * locals.random_factor > 760000
               THEN 760000 ELSE locals.normalized_risk * locals.random_factor)
        /\ result.risk_score = RoundHalfEven(locals.final_risk, 800)

\* over the limit, the largest jitter, neither clamp nor cap reached
C21_Witness ==
    /\ Succeeded
    /\ InDomain(request.conditions)
    /\ request.conditions.current_speed = 61
    /\ request.conditions.speed_limit = 60
    /\ locals.random_factor = 105
    /\ locals.total_risk = 371
    /\ locals.final_risk = 389550
    /\ result.risk_score = 487

(***************************************************************************)
(* C22: every integer age falls in exactly one age bucket and every        *)
(* integer experience in exactly one experience bucket, with shared        *)
(* boundary values assigned to the lower bucket: age < 25 -> under_25,     *)
(* 25..40 -> 25_40, 41..60 -> 40_60, > 60 -> over_60; experience < 2 ->    *)
(* under_2, 2..5 -> 2_5, 6..10 -> 5_10, > 10 -> over_10; the weight added  *)
(* is the one of that bucket.                                              *)
(***************************************************************************)
InAgeBucket(b, age) ==
    \/ b = "under_25" /\ age < 25
    \/ b = "25_40" /\ age >= 25 /\ age <= 40
    \/ b = "40_60" /\ age >= 41 /\ age <= 60
    \/ b = "over_60" /\ age > 60

InExperienceBucket(b, experience) ==
    \/ b = "under_2" /\ experience < 2
    \/ b = "2_5" /\ experience >= 2 /\ experience <= 5
    \/ b = "5_10" /\ experience >= 6 /\ experience <= 10
    \/ b = "over_10" /\ experience > 10

\* the total without the age and experience terms
TotalWithoutAgeAndExperience(r) ==
    location_risk(r.location)
    + SumOfTwenty([Contributions(r.conditions) EXCEPT ![2] = 0, ![3] = 0])

C22_AgeAndExperienceBuckets ==
    Succeeded =>
        /\ Cardinality({b \in DOMAIN W_driver_age :
                            InAgeBucket(b, request.conditions.driver_age)}) = 1
        /\ Cardinality({b \in DOMAIN W_experience :
                 InExperienceBucket(b, request.conditions.experience)}) = 1
        /\ InAgeBucket(locals.age_category, request.conditions.driver_age)
        /\ InExperienceBucket(locals.exp_category, request.conditions.experience)
        /\ locals.total_risk = TotalWithoutAgeAndExperience(request)
                                + W_driver_age[locals.age_category]
                                + W_experience[locals.exp_category]

\* a shared boundary value: age 40 counts as 25_40
C22_Witness ==
    /\ Succeeded
    /\ request.conditions.driver_age = 40
    /\ locals.age_category = "25_40"
    /\ locals.exp_category = "2_5"
    /\ locals.total_risk = 370

(***************************************************************************)
(* C23: risk_factors contains one entry for each checklist condition that  *)
(* is true and none for a condition that is false, always in the fixed     *)
(* order weather != Clear, road_surface != Dry, visibility != high,        *)
(* light_condition contains "Night", traffic_volume = High, current_speed  *)
(* > speed_limit, road_design in {Junction, Curved}, driver_age < 25,      *)
(* experience < 2; the order never depends on how much each factor         *)
(* contributed to the score.                                               *)
(***************************************************************************)
\* the nine checklist conditions with their entries, in the claimed order
FactorChecklist(c) ==
    << <<c.weather # "Clear", "Weather: " \o c.weather>>,
       <<c.road_surface # "Dry", "Road Surface: " \o c.road_surface>>,
       <<c.visibility # "high", "Poor Visibility">>,
       <<c.light_condition \in {"Night_with_lights", "Night_without_lights"},
         "Night Driving">>,
       <<c.traffic_volume = "High", "Heavy Traffic">>,
       <<c.current_speed > c.speed_limit, "Speeding">>,
       <<c.road_design \in {"Junction", "Curved"},
         "Road Design: " \o c.road_design>>,
       <<c.driver_age < 25, "Young Driver">>,
       <<c.experience < 2, "Inexperienced Driver">> >>

\* how many of the first i conditions are true
TrueUpTo(list, i) == Cardinality({j \in 1..i : list[j][1]})

FactorsFollow(list, factors) ==
    /\ Len(factors) = TrueUpTo(list, Len(list))
    /\ \A i \in 1..Len(list) :
          list[i][1] => factors[TrueUpTo(list, i)] = list[i][2]

C23_RiskFactorsInChecklistOrder ==
    (Succeeded /\ InDomain(request.conditions)) =>
        FactorsFollow(FactorChecklist(request.conditions), result.risk_factors)

\* all nine conditions true: nine entries, speeding sixth although it
\* contributes the most of the nine
C23_Witness ==
    /\ Succeeded
    /\ request.conditions = RiskiestConditions
    /\ Len(result.risk_factors) = 9
    /\ result.risk_factors[1] = "Weather: Stormy"
    /\ result.risk_factors[6] = "Speeding"
    /\ locals.speed_risk = 100
    /\ result.risk_factors[9] = "Inexperienced Driver"

(***************************************************************************)
(* C24: _coordinates_to_location returns the name of the table centroid    *)
(* with the smallest Euclidean distance (on raw degrees) to (lat, lon);    *)
(* when two centroids are at the same minimal distance, the one earlier in *)
(* table order is returned.                                                *)
(***************************************************************************)
\* /predict has been answered with an assessment of some location
Resolved ==
    /\ response # NoResult
    /\ request.endpoint = "predict"
    /\ "location" \in DOMAIN locals

\* centroid i is at least as close to (lat, lon) as every centroid
IsNearest(lat, lon, i) ==
    \A j \in 1..Len(locations) :
        ~LessWide(distance_squared(lat, lon, j), distance_squared(lat, lon, i))

C24_NearestCentroidFirstOnTie ==
    Resolved =>
        \E i \in 1..Len(locations) :
            /\ locals.location = locations[i][3]
            /\ IsNearest(locals.lat, locals.lon, i)
            /\ \A j \in 1..(i - 1) : ~IsNearest(locals.lat, locals.lon, j)

\* at equal distance from Hyderabad and Pune, nearer to no other city:
\* Hyderabad, the earlier of the two in the table
C24_Witness ==
    /\ Resolved
    /\ locals.lat = 179527 /\ locals.lon = 761717
    /\ IsNearest(locals.lat, locals.lon, 6)
    /\ IsNearest(locals.lat, locals.lon, 7)
    /\ locals.location = "Hyderabad, Telangana"
    /\ response.body.location.address = "Hyderabad, Telangana"

(***************************************************************************)
(* C25: the area type of a coordinate is computed against the same         *)
(* centroid table that _coordinates_to_location uses: it is Urban when the *)
(* coordinate is less than 0.5 degrees from some centroid of that table,   *)
(* Suburban when it is less than 1.0 degrees from some centroid but not    *)
(* less than 0.5 from any, and Rural otherwise; so a coordinate within 0.5 *)
(* degrees of the city it resolves to is never classified Rural.           *)
(***************************************************************************)
AreaDetermined == locals # NoResult /\ "area_type" \in DOMAIN locals

\* some centroid of _coordinates_to_location's table is closer than `limit`
CentroidWithin(lat, lon, limit) ==
    \E i \in 1..Len(locations) : LessWide(distance_squared(lat, lon, i), limit)

ClaimedAreaType(lat, lon) ==
    IF CentroidWithin(lat, lon, <<25, 0>>) THEN "Urban"
    ELSE IF CentroidWithin(lat, lon, <<100, 0>>) THEN "Suburban"
    ELSE "Rural"

\* the resolved city is closer than 0.5 degrees
ResolvedCityWithinHalfDegree ==
    \E i \in 1..Len(locations) :
        /\ locations[i][3] = locals.location
        /\ LessWide(distance_squared(locals.lat, locals.lon, i), <<25, 0>>)

C25_AreaTypeFromSameTable ==
    AreaDetermined =>
        /\ locals.area_type = ClaimedAreaType(locals.lat, locals.lon)
        /\ ResolvedCityWithinHalfDegree => locals.area_type # "Rural"

(***************************************************************************)
(* C26: for every hour 0..23 and month 1..12, _create_basic_conditions     *)
(* picks exactly one band: hours 5..11 -> Morning/Medium, 12..16 ->        *)
(* Afternoon/High, 17..20 -> Evening/High, all other hours -> Night/Low;   *)
(* months 6..9 -> Rainy/Wet/medium, all other months -> Clear/Dry/high;    *)
(* light_condition is Daylight for hours 6..18 and Night_with_lights       *)
(* otherwise.                                                              *)
(***************************************************************************)
\* the claimed bands: hours, time_of_day, traffic_volume
HourBands ==
    {<<5..11, "Morning", "Medium">>, <<12..16, "Afternoon", "High">>,
     <<17..20, "Evening", "High">>,
     <<(0..4) \cup (21..23), "Night", "Low">>}

\* the claimed seasons: months, weather, road_surface, visibility
MonthBands ==
    {<<6..9, "Rainy", "Wet", "medium">>,
     <<(1..5) \cup (10..12), "Clear", "Dry", "high">>}

C26_BasicConditionsBands ==
    Resolved =>
        /\ Cardinality({b \in HourBands : locals.now.hour \in b[1]}) = 1
        /\ Cardinality({b \in MonthBands : locals.now.month \in b[1]}) = 1
        /\ \E b \in HourBands :
              /\ locals.now.hour \in b[1]
              /\ locals.conditions.time_of_day = b[2]
              /\ locals.conditions.traffic_volume = b[3]
        /\ \E b \in MonthBands :
              /\ locals.now.month \in b[1]
              /\ locals.conditions.weather = b[2]
              /\ locals.conditions.road_surface = b[3]
              /\ locals.conditions.visibility = b[4]
        /\ locals.conditions.light_condition =
              (IF locals.now.hour \in 6..18 THEN "Daylight"
               ELSE "Night_with_lights")

\* noon in September: the first hour of the afternoon, the last monsoon month
C26_Witness ==
    /\ Resolved
    /\ locals.now.hour = 12 /\ locals.now.month = 9
    /\ locals.conditions.time_of_day = "Afternoon"
    /\ locals.conditions.traffic_volume = "High"
    /\ locals.conditions.weather = "Rainy"
    /\ locals.conditions.light_condition = "Daylight"
    /\ response.status = 200

(***************************************************************************)
(* C27: every probability in a successful result lies in [0, 1]: for every *)
(* reachable final risk value (up to 0.95) and every draw of the uniform   *)
(* variables, none of low, medium, high is negative and none exceeds 1.    *)
(***************************************************************************)
InUnitInterval(p, one) == 0 <= p /\ p <= one

C27_ProbabilitiesInUnitInterval ==
    (Succeeded /\ ValidConditions(request.conditions)) =>
        /\ InUnitInterval(locals.probs.low, ProbOne)
        /\ InUnitInterval(locals.probs.medium, ProbOne)
        /\ InUnitInterval(locals.probs.high, ProbOne)
        /\ InUnitInterval(result.probabilities.low, 1000)
        /\ InUnitInterval(result.probabilities.medium, 1000)
        /\ InUnitInterval(result.probabilities.high, 1000)

(***************************************************************************)
(* C28: for every location and every in-domain conditions value with a     *)
(* non-negative accident_history the total risk is at least 2.7, so the    *)
(* risk after the jitter is at least 0.32 and the returned severity is     *)
(* never Low (severity_code 0 is not returned).                            *)
(***************************************************************************)
\* the least value a weight table can contribute
LeastOf(table) ==
    CHOOSE v \in {table[k] : k \in DOMAIN table} :
        \A k \in DOMAIN table : v <= table[k]

\* the least base risk any location string can get
LeastLocationRisk ==
    LET values == {location_risk_base[i][2] : i \in 1..Len(location_risk_base)}
                  \cup {DefaultLocationRisk}
    IN  CHOOSE v \in values : \A w \in values : v <= w

\* the least sum of the twenty-one terms, the speed and history terms at 0
LeastTotal ==
    LeastLocationRisk
    + Min(LeastOf(W_vehicle_type), UnknownWeight)
    + LeastOf(W_driver_age) + LeastOf(W_experience)
    + LeastOf(W_license_valid) + LeastOf(W_seatbelt)
    + Min(LeastOf(W_weather), UnknownWeight)
    + LeastOf(W_road_surface) + LeastOf(W_visibility)
    + LeastOf(W_light_condition) + LeastOf(W_road_type)
    + LeastOf(W_road_design) + LeastOf(W_traffic_volume)
    + LeastOf(W_time_of_day) + LeastOf(W_day_of_week) + LeastOf(W_area_type)
    + LeastOf(W_overtaking) + LeastOf(W_alcohol) + LeastOf(W_phone_usage)

\* 2.7 in hundredths; 0.32 and the Low threshold 0.3 in 1/800000
C28_TotalAtLeastNeverLow ==
    /\ LeastTotal = 270
    /\ 10 * LeastTotal * 95 >= 256000
    /\ (Succeeded /\ InDomain(request.conditions)
           /\ request.conditions.accident_history >= 0) =>
          /\ locals.location_risk >= LeastLocationRisk
          /\ locals.total_risk >= 270
          /\ locals.final_risk >= 256000
          /\ locals.final_risk >= 240000
          /\ result.severity_code # 0
          /\ result.predicted_severity # "Low Risk"

\* the least total: the safest conditions in a village, the smallest jitter
C28_Witness ==
    /\ Succeeded
    /\ request.location = "Green Village"
    /\ request.conditions = SafestConditions
    /\ locals.total_risk = 270
    /\ locals.random_factor = 95
    /\ locals.final_risk = 256500
    /\ result.severity_code = 1
    /\ result.predicted_severity = "Medium Risk"

(***************************************************************************)
(* C29: for every coordinate pair and every timestamp the conditions built *)
(* by _create_basic_conditions lie inside the scorer's enumerated domains, *)
(* so predict_risk, and every element of batch_predict, returns            *)
(* success = true and never the scorer's failure outcome.                  *)
(***************************************************************************)
\* /batch_predict has been answered
BatchReplied ==
    /\ response # NoResult
    /\ request.endpoint = "batch_predict"

\* an assessment, not the failure outcome {success: false, error: ...}
IsAssessment(r) ==
    /\ r.success
    /\ "error" \notin DOMAIN r
    /\ r.severity_code \in {0, 1, 2}

C29_LegacyPredictionsSucceed ==
    /\ Resolved =>
          /\ InDomain(locals.conditions)
          /\ locals.conditions.vehicle_type \in DOMAIN W_vehicle_type
          /\ locals.conditions.weather \in DOMAIN W_weather
          /\ IsAssessment(formatted)
          /\ response.status = 200
          /\ response.body = formatted
    /\ BatchReplied =>
          /\ response.status = 200
          /\ Len(response.body.results) = Len(request.data.fields.locations)
          /\ \A i \in 1..Len(response.body.results) :
                 IsAssessment(response.body.results[i])

\* a point far from every centroid, at 23h on a Saturday in June
C29_Witness ==
    /\ Resolved
    /\ locals.lat = -337000 /\ locals.lon = 1512000
    /\ locals.now = [hour |-> 23, month |-> 6, weekday |-> 5]
    /\ locals.conditions.light_condition = "Night_with_lights"
    /\ locals.conditions.weather = "Rainy"
    /\ locals.conditions.is_weekend
    /\ formatted.success
    /\ response.status = 200

(***************************************************************************)
(* C30: the module-global predictor starts unset; before init_api is       *)
(* called every prediction endpoint answers 500 with success = false and   *)
(* /health answers 503 'unhealthy'; once init_api has been called with a   *)
(* predictor no request, successful or failing, unsets it, so every later  *)
(* /health call answers 200 'healthy' and no later prediction call answers *)
(* 'Prediction service not available'.                                     *)
(***************************************************************************)
PredictionEndpoints == {"predict_comprehensive", "predict", "batch_predict"}

ServiceUnavailable(r) ==
    /\ r.status = 500
    /\ r.body.success = FALSE
    /\ r.body.error = "Prediction service not available"

SaysUnavailable(r) ==
    /\ "error" \in DOMAIN r.body
    /\ r.body.error = "Prediction service not available"

\* a step that answers the pending request
Answering == response = NoResult /\ response' # NoResult

PredictorStep ==
    /\ predictor # None => predictor' = predictor
    /\ predictor' # predictor => (predictor = None /\ response' = response)
    /\ Answering =>
          /\ predictor' = predictor
          /\ (predictor = None /\ request.endpoint \in PredictionEndpoints)
                => ServiceUnavailable(response')
          /\ (predictor = None /\ request.endpoint = "health")
                => /\ response'.status = 503
                   /\ response'.body.status = "unhealthy"
          /\ (predictor # None /\ request.endpoint = "health")
                => /\ response'.status = 200
                   /\ response'.body.status = "healthy"
          /\ (predictor # None /\ request.endpoint \in PredictionEndpoints)
                => ~SaysUnavailable(response')

C30_PredictorSetOnceNeverUnset ==
    /\ predictor = None
    /\ [][PredictorStep]_vars
    /\ [](predictor # None => [](predictor # None))

\* a prediction refused before init_api is remembered, and after init_api
\* /health is answered 200 'healthy'
C30_Witness ==
    /\ earlier # NoResult
    /\ earlier.request.endpoint \in PredictionEndpoints
    /\ ServiceUnavailable(earlier.response)
    /\ predictor = AccidentPredictorInstance
    /\ request.endpoint = "health"
    /\ response # NoResult
    /\ response.status = 200
    /\ response.body.status = "healthy"

====
